---- MODULE Spec2Model ----
(***************************************************************************)
(* gkeys-rs: the macro recorder (src/src/recording.rs), the LED controller *)
(* thread and its self-write marker (src/src/led.rs) and the event loop    *)
(* that drives both (src/src/main.rs).                                     *)
(***************************************************************************)
EXTENDS Integers, Sequences, FiniteSets, TLC

(* ---------------------------------------------------------------------- *)
(* Bounds of the model                                                    *)
(* ---------------------------------------------------------------------- *)
\* chords one capture thread sends at most
MaxChords == 2
\* device reports the event loop reads at most
MaxReads == 4
\* milliseconds the clock advances at most in steps of TickSteps
MaxTime == 50
\* milliseconds the clock advances at most by the LED thread's timers
MaxTimer == 1100
\* capture threads started at most
MaxThreads == 2
\* device reports the event loop reads at most when only MR and G1 are pressed
MaxPresses == 5
\* opens that fail one after another at most
MaxFails == 7
\* commands sent to the LED thread at most when its callers are not modelled
MaxCommands == 3
\* fetches of a capture thread that return an error at most
MaxErrs == 2

(* ---------------------------------------------------------------------- *)
(* Program constants                                                      *)
(* ---------------------------------------------------------------------- *)
MR_LED_DEBOUNCE_MS == 30
MR_FLASH_INTERVAL == 500
MR_QUICK_FLASH_INTERVAL == 125
MR_QUICK_FLASH_COUNT == 4
\* G815.num_gkeys, G815.num_mkeys
NumGKeys == 5
NumMKeys == 3

GKeys == 1..NumGKeys
MKeys == 1..NumMKeys

(* ---------------------------------------------------------------------- *)
(* Strings                                                                *)
(* ---------------------------------------------------------------------- *)
\* format!("{}", n) for the small numbers the program formats
Digits == <<"1", "2", "3", "4", "5">>
\* format!("MEMORY_{}", n)
ProfileName(n) == "MEMORY_" \o Digits[n]
\* format!("MACRO_{}", n)
MacroName(n) == "MACRO_" \o Digits[n]
ProfileNames == {ProfileName(n) : n \in MKeys}
MacroNames == {MacroName(n) : n \in GKeys}

\* slice.join(sep)
RECURSIVE Join(_, _)
Join(parts, sep) ==
  IF Len(parts) = 0 THEN ""
  ELSE IF Len(parts) = 1 THEN parts[1]
  ELSE parts[1] \o sep \o Join(Tail(parts), sep)

(* ---------------------------------------------------------------------- *)
(* Events (events.rs) and what a read of the device returns               *)
(* ---------------------------------------------------------------------- *)
GKey(n) == [tag |-> "GKey", n |-> n]
MKey(n) == [tag |-> "MKey", n |-> n]
GKeyRelease == [tag |-> "GKeyRelease", n |-> 0]
MKeyRelease == [tag |-> "MKeyRelease", n |-> 0]
MRKey == [tag |-> "MRKey", n |-> 0]
MRKeyRelease == [tag |-> "MRKeyRelease", n |-> 0]
Events ==
  {GKey(n) : n \in GKeys} \cup {MKey(n) : n \in MKeys}
    \cup {GKeyRelease, MKeyRelease, MRKey, MRKeyRelease}
\* Ok(None): a timeout or a report parse_report does not decode
NoEvent == [tag |-> "None", n |-> 0]

\* parse_report that takes the lowest bit set in a G-key mask for the key
parse_report_lowest_bit(data) ==
  IF Len(data) < 5 THEN NoEvent
  ELSE IF data[1] # 17 \/ data[2] # 255 THEN NoEvent
  ELSE CASE data[3] = 10 ->
              (IF data[5] = 0 THEN GKeyRelease
               ELSE IF data[5] % 2 = 1 THEN GKey(1)
               ELSE IF data[5] % 4 = 2 THEN GKey(2)
               ELSE IF data[5] % 8 = 4 THEN GKey(3)
               ELSE IF data[5] % 16 = 8 THEN GKey(4)
               ELSE IF data[5] % 32 = 16 THEN GKey(5)
               ELSE NoEvent)
         [] data[3] = 11 ->
              (CASE data[5] = 1 -> MKey(1)
                 [] data[5] = 2 -> MKey(2)
                 [] data[5] = 4 -> MKey(3)
                 [] data[5] = 0 -> MKeyRelease
                 [] OTHER -> NoEvent)
         [] data[3] = 12 ->
              (CASE data[5] = 1 -> MRKey
                 [] data[5] = 0 -> MRKeyRelease
                 [] OTHER -> NoEvent)
         [] OTHER -> NoEvent

\* parse_report without the check of the 0x11 0xff prefix
parse_report_any_prefix(data) ==
  IF Len(data) < 5 THEN NoEvent
  ELSE CASE data[3] = 10 ->
              (CASE data[5] = 1 -> GKey(1)
                 [] data[5] = 2 -> GKey(2)
                 [] data[5] = 4 -> GKey(3)
                 [] data[5] = 8 -> GKey(4)
                 [] data[5] = 16 -> GKey(5)
                 [] data[5] = 0 -> GKeyRelease
                 [] OTHER -> NoEvent)
         [] data[3] = 11 ->
              (CASE data[5] = 1 -> MKey(1)
                 [] data[5] = 2 -> MKey(2)
                 [] data[5] = 4 -> MKey(3)
                 [] data[5] = 0 -> MKeyRelease
                 [] OTHER -> NoEvent)
         [] data[3] = 12 ->
              (CASE data[5] = 1 -> MRKey
                 [] data[5] = 0 -> MRKeyRelease
                 [] OTHER -> NoEvent)
         [] OTHER -> NoEvent

\* parse_report: data is the bytes read (data[1] is the code's data[0]); None
\* is NoEvent
parse_report(data) ==
  IF Len(data) < 5 THEN NoEvent
  ELSE IF data[1] # 17 \/ data[2] # 255 THEN NoEvent
  ELSE CASE data[3] = 10 ->
              (CASE data[5] = 1 -> GKey(1)
                 [] data[5] = 2 -> GKey(2)
                 [] data[5] = 4 -> GKey(3)
                 [] data[5] = 8 -> GKey(4)
                 [] data[5] = 16 -> GKey(5)
                 [] data[5] = 0 -> GKeyRelease
                 [] OTHER -> NoEvent)
         [] data[3] = 11 ->
              (CASE data[5] = 1 -> MKey(1)
                 [] data[5] = 2 -> MKey(2)
                 [] data[5] = 4 -> MKey(3)
                 [] data[5] = 0 -> MKeyRelease
                 [] OTHER -> NoEvent)
         [] data[3] = 12 ->
              (CASE data[5] = 1 -> MRKey
                 [] data[5] = 0 -> MRKeyRelease
                 [] OTHER -> NoEvent)
         [] OTHER -> NoEvent

\* Device::read_event_blocking (and read_event_timeout once poll reports
\* data) for a read of Len(data) bytes: Ok(event), or Ok(None) as NoEvent
read_event_blocking(data) == IF Len(data) > 0 THEN parse_report(data) ELSE NoEvent

(* ---------------------------------------------------------------------- *)
(* The reports written to the device (events.rs)                          *)
(* ---------------------------------------------------------------------- *)
\* [0u8; 20] with its first bytes set
Report20(head) == head \o [i \in 1..(20 - Len(head)) |-> 0]

\* led_command; profile in 0..8 (1 << 8 does not fit a u8)
led_command(profile) ==
  Report20(<<17, 255, 11, 28, 2 ^ (IF profile >= 1 THEN profile - 1 ELSE 0)>>)

\* an mr_led_command with the family of the M keys
mr_led_command_as_mkey(on) == Report20(<<17, 255, 11, 12, IF on THEN 1 ELSE 0>>)

mr_led_command(on) == Report20(<<17, 255, 12, 12, IF on THEN 1 ELSE 0>>)

\* gkey.saturating_add(0xb3) is the address of the key
gkey_led_command(gkey, r, g, b) ==
  Report20(<<17, 255, 16, 108, r, g, b, IF gkey + 179 > 255 THEN 255 ELSE gkey + 179, 255>>)

all_gkeys_led_command(r, g, b) ==
  Report20(<<17, 255, 16, 108, r, g, b, 180, 181, 182, 183, 184, 255>>)

led_commit_command == Report20(<<17, 255, 16, 127>>)

direct_mode_init_commands ==
  <<Report20(<<17, 255, 8, 62>>),
    Report20(<<17, 255, 8, 30>>),
    [Report20(<<17, 255, 15, 30>>) EXCEPT ![17] = 1],
    Report20(<<17, 255, 15, 30, 1>>)>>

\* the addresses of the table, range by range, in its order
G815_ALL_KEYS ==
  [i \in 1..98 |-> i] \o [i \in 1..8 |-> 103 + i] \o <<152, 153, 154, 155>>
    \o <<150>> \o <<210>> \o <<180, 181, 182, 183, 184>>

full_keyboard_color_commands(r, g, b) ==
  [i \in 1..Len(G815_ALL_KEYS) |-> Report20(<<17, 255, 16, 31, G815_ALL_KEYS[i], r, g, b>>)]

(* ---------------------------------------------------------------------- *)
(* RecordingState and RecordingAction (recording.rs)                      *)
(* ---------------------------------------------------------------------- *)
Idle == [tag |-> "Idle", profile |-> "", gkey |-> 0, captured_keys |-> <<>>, thread |-> 0]
AwaitingGKey(p) ==
  [tag |-> "AwaitingGKey", profile |-> p, gkey |-> 0, captured_keys |-> <<>>, thread |-> 0]
Recording(p, g, keys, t) ==
  [tag |-> "Recording", profile |-> p, gkey |-> g, captured_keys |-> keys, thread |-> t]

ActNone == [tag |-> "None", profile |-> "", gkey |-> 0, text |-> ""]
EnterAwaiting == [tag |-> "EnterAwaiting", profile |-> "", gkey |-> 0, text |-> ""]
StartedRecording(g) == [tag |-> "StartedRecording", profile |-> "", gkey |-> g, text |-> ""]
SaveMacro(p, g, s) == [tag |-> "SaveMacro", profile |-> p, gkey |-> g, text |-> s]
CancelledEmpty == [tag |-> "CancelledEmpty", profile |-> "", gkey |-> 0, text |-> ""]
CancelledNoGKey == [tag |-> "CancelledNoGKey", profile |-> "", gkey |-> 0, text |-> ""]
Error(msg) == [tag |-> "Error", profile |-> "", gkey |-> 0, text |-> msg]

(* ---------------------------------------------------------------------- *)
(* LedCommand (led.rs)                                                    *)
(* ---------------------------------------------------------------------- *)
SetMrLed(on) == [cmd |-> "SetMrLed", on |-> on, n |-> 0, rgb |-> <<0, 0, 0>>]
SetProfileLed(p) == [cmd |-> "SetProfileLed", on |-> FALSE, n |-> p, rgb |-> <<0, 0, 0>>]
SetAllGKeysLed(r, g, b) == [cmd |-> "SetAllGKeysLed", on |-> FALSE, n |-> 0, rgb |-> <<r, g, b>>]
SetGKeysRecording(g) == [cmd |-> "SetGKeysRecording", on |-> FALSE, n |-> g, rgb |-> <<0, 0, 0>>]
StartMrFlashing == [cmd |-> "StartMrFlashing", on |-> FALSE, n |-> 0, rgb |-> <<0, 0, 0>>]
StopMrFlashing == [cmd |-> "StopMrFlashing", on |-> FALSE, n |-> 0, rgb |-> <<0, 0, 0>>]
QuickFlashMr(count) == [cmd |-> "QuickFlashMr", on |-> FALSE, n |-> count, rgb |-> <<0, 0, 0>>]
TurnOffGKeys == [cmd |-> "TurnOffGKeys", on |-> FALSE, n |-> 0, rgb |-> <<0, 0, 0>>]
\* color: Some((r, g, b)) as <<r, g, b>>, None as <<>>
SetFullKeyboardColor(r, g, b) ==
  [cmd |-> "SetFullKeyboardColor", on |-> FALSE, n |-> 0, rgb |-> <<r, g, b>>]
RestoreGKeysColor(color) ==
  [cmd |-> "RestoreGKeysColor", on |-> FALSE, n |-> 0, rgb |-> color]
Shutdown == [cmd |-> "Shutdown", on |-> FALSE, n |-> 0, rgb |-> <<0, 0, 0>>]

(* ---------------------------------------------------------------------- *)
(* Config (config.rs)                                                     *)
(* ---------------------------------------------------------------------- *)
Macro(type, action) == [hotkey_type |-> type, action |-> action]

\* Config::get_macro: Some(macro) as {macro}, None as {}
get_macro(cfg, profile, macro_name) ==
  IF profile \in DOMAIN cfg.profiles /\ macro_name \in DOMAIN cfg.profiles[profile]
    THEN {cfg.profiles[profile][macro_name]}
    ELSE {}

\* HashMap::insert
MapInsert(map, k, v) == [x \in (DOMAIN map) \cup {k} |-> IF x = k THEN v ELSE map[x]]

EmptyMap == [x \in {} |-> 0]

\* Config::set_macro
set_macro(cfg, profile, macro_name, macro_def) ==
  LET profile_entry ==
        IF profile \in DOMAIN cfg.profiles THEN cfg.profiles[profile] ELSE EmptyMap
  IN  [cfg EXCEPT !.profiles =
         MapInsert(cfg.profiles, profile, MapInsert(profile_entry, macro_name, macro_def))]

(* ---------------------------------------------------------------------- *)
(* The capture thread: keys, ModifierState, key_to_name (recording.rs)    *)
(* ---------------------------------------------------------------------- *)
\* the evdev keys the keyboard of the model has; KEY_VOLUMEUP stands for the
\* keys key_to_name does not know
CaptureKeys == {"KEY_LEFTCTRL", "KEY_A", "KEY_VOLUMEUP"}

\* the names key_to_name gives
KeyNames ==
  [KEY_A |-> "a", KEY_B |-> "b", KEY_C |-> "c", KEY_D |-> "d", KEY_E |-> "e",
   KEY_F |-> "f", KEY_G |-> "g", KEY_H |-> "h", KEY_I |-> "i", KEY_J |-> "j",
   KEY_K |-> "k", KEY_L |-> "l", KEY_M |-> "m", KEY_N |-> "n", KEY_O |-> "o",
   KEY_P |-> "p", KEY_Q |-> "q", KEY_R |-> "r", KEY_S |-> "s", KEY_T |-> "t",
   KEY_U |-> "u", KEY_V |-> "v", KEY_W |-> "w", KEY_X |-> "x", KEY_Y |-> "y",
   KEY_Z |-> "z", KEY_1 |-> "1", KEY_2 |-> "2", KEY_3 |-> "3", KEY_4 |-> "4",
   KEY_5 |-> "5", KEY_6 |-> "6", KEY_7 |-> "7", KEY_8 |-> "8", KEY_9 |-> "9",
   KEY_0 |-> "0", KEY_F1 |-> "f1", KEY_F2 |-> "f2", KEY_F3 |-> "f3", KEY_F4 |-> "f4",
   KEY_F5 |-> "f5", KEY_F6 |-> "f6", KEY_F7 |-> "f7", KEY_F8 |-> "f8", KEY_F9 |-> "f9",
   KEY_F10 |-> "f10", KEY_F11 |-> "f11", KEY_F12 |-> "f12", KEY_ESC |-> "esc",
   KEY_TAB |-> "tab", KEY_CAPSLOCK |-> "capslock", KEY_SPACE |-> "space",
   KEY_ENTER |-> "enter", KEY_BACKSPACE |-> "backspace", KEY_DELETE |-> "delete",
   KEY_INSERT |-> "insert", KEY_HOME |-> "home", KEY_END |-> "end",
   KEY_PAGEUP |-> "pageup", KEY_PAGEDOWN |-> "pagedown", KEY_UP |-> "up",
   KEY_DOWN |-> "down", KEY_LEFT |-> "left", KEY_RIGHT |-> "right",
   KEY_MINUS |-> "minus", KEY_EQUAL |-> "equal", KEY_LEFTBRACE |-> "leftbrace",
   KEY_RIGHTBRACE |-> "rightbrace", KEY_SEMICOLON |-> "semicolon",
   KEY_APOSTROPHE |-> "apostrophe", KEY_GRAVE |-> "grave",
   KEY_BACKSLASH |-> "backslash", KEY_COMMA |-> "comma", KEY_DOT |-> "dot",
   KEY_SLASH |-> "slash", KEY_KP0 |-> "kp0", KEY_KP1 |-> "kp1", KEY_KP2 |-> "kp2",
   KEY_KP3 |-> "kp3", KEY_KP4 |-> "kp4", KEY_KP5 |-> "kp5", KEY_KP6 |-> "kp6",
   KEY_KP7 |-> "kp7", KEY_KP8 |-> "kp8", KEY_KP9 |-> "kp9", KEY_KPMINUS |-> "kpminus",
   KEY_KPPLUS |-> "kpplus", KEY_KPENTER |-> "kpenter", KEY_KPDOT |-> "kpdot",
   KEY_KPSLASH |-> "kpslash", KEY_KPASTERISK |-> "kpasterisk",
   KEY_SYSRQ |-> "printscreen", KEY_SCROLLLOCK |-> "scrolllock", KEY_PAUSE |-> "pause"]

\* key_to_name: Some(name) as the name, None (the modifiers and every key the
\* match does not list) as ""
key_to_name(key) == IF key \in DOMAIN KeyNames THEN KeyNames[key] ELSE ""

\* ModifierState::default
NoModifiers == [ctrl |-> FALSE, shift |-> FALSE, alt |-> FALSE, meta |-> FALSE]

IsModifier(key) ==
  key \in {"KEY_LEFTCTRL", "KEY_RIGHTCTRL", "KEY_LEFTSHIFT", "KEY_RIGHTSHIFT",
           "KEY_LEFTALT", "KEY_RIGHTALT", "KEY_LEFTMETA", "KEY_RIGHTMETA"}

\* ModifierState::update: the state after it (its result is IsModifier(key))
update(m, key, pressed) ==
  CASE key \in {"KEY_LEFTCTRL", "KEY_RIGHTCTRL"} -> [m EXCEPT !.ctrl = pressed]
    [] key \in {"KEY_LEFTSHIFT", "KEY_RIGHTSHIFT"} -> [m EXCEPT !.shift = pressed]
    [] key \in {"KEY_LEFTALT", "KEY_RIGHTALT"} -> [m EXCEPT !.alt = pressed]
    [] key \in {"KEY_LEFTMETA", "KEY_RIGHTMETA"} -> [m EXCEPT !.meta = pressed]
    [] OTHER -> m

\* ModifierState::format_with_key: Some(chord) as the chord, None as ""
format_with_key(m, key) ==
  IF key_to_name(key) = "" THEN ""
  ELSE Join((IF m.ctrl THEN <<"ctrl">> ELSE <<>>)
              \o (IF m.alt THEN <<"alt">> ELSE <<>>)
              \o (IF m.shift THEN <<"shift">> ELSE <<>>)
              \o (IF m.meta THEN <<"super">> ELSE <<>>)
              \o <<key_to_name(key)>>, "+")

(* ---------------------------------------------------------------------- *)
(* VirtualKeyboard (uinput.rs) and MacroExecutor (macros.rs)              *)
(* ---------------------------------------------------------------------- *)
\* mod keys: the key codes
key_code ==
  [KEY_ESC |-> 1, KEY_1 |-> 2, KEY_2 |-> 3, KEY_3 |-> 4, KEY_4 |-> 5, KEY_5 |-> 6,
   KEY_6 |-> 7, KEY_7 |-> 8, KEY_8 |-> 9, KEY_9 |-> 10, KEY_0 |-> 11, KEY_MINUS |-> 12,
   KEY_EQUAL |-> 13, KEY_BACKSPACE |-> 14, KEY_TAB |-> 15, KEY_Q |-> 16, KEY_W |-> 17,
   KEY_E |-> 18, KEY_R |-> 19, KEY_T |-> 20, KEY_Y |-> 21, KEY_U |-> 22, KEY_I |-> 23,
   KEY_O |-> 24, KEY_P |-> 25, KEY_LEFTBRACE |-> 26, KEY_RIGHTBRACE |-> 27,
   KEY_ENTER |-> 28, KEY_LEFTCTRL |-> 29, KEY_A |-> 30, KEY_S |-> 31, KEY_D |-> 32,
   KEY_F |-> 33, KEY_G |-> 34, KEY_H |-> 35, KEY_J |-> 36, KEY_K |-> 37, KEY_L |-> 38,
   KEY_SEMICOLON |-> 39, KEY_APOSTROPHE |-> 40, KEY_GRAVE |-> 41, KEY_LEFTSHIFT |-> 42,
   KEY_BACKSLASH |-> 43, KEY_Z |-> 44, KEY_X |-> 45, KEY_C |-> 46, KEY_V |-> 47,
   KEY_B |-> 48, KEY_N |-> 49, KEY_M |-> 50, KEY_COMMA |-> 51, KEY_DOT |-> 52,
   KEY_SLASH |-> 53, KEY_RIGHTSHIFT |-> 54, KEY_LEFTALT |-> 56, KEY_SPACE |-> 57,
   KEY_CAPSLOCK |-> 58, KEY_F1 |-> 59, KEY_F2 |-> 60, KEY_F3 |-> 61, KEY_F4 |-> 62,
   KEY_F5 |-> 63, KEY_F6 |-> 64, KEY_F7 |-> 65, KEY_F8 |-> 66, KEY_F9 |-> 67,
   KEY_F10 |-> 68, KEY_F11 |-> 87, KEY_F12 |-> 88, KEY_F13 |-> 183, KEY_F14 |-> 184,
   KEY_F15 |-> 185, KEY_F16 |-> 186, KEY_F17 |-> 187, KEY_F18 |-> 188, KEY_F19 |-> 189,
   KEY_F20 |-> 190, KEY_RIGHTCTRL |-> 97, KEY_RIGHTALT |-> 100, KEY_HOME |-> 102,
   KEY_UP |-> 103, KEY_PAGEUP |-> 104, KEY_LEFT |-> 105, KEY_RIGHT |-> 106,
   KEY_END |-> 107, KEY_DOWN |-> 108, KEY_PAGEDOWN |-> 109, KEY_INSERT |-> 110,
   KEY_DELETE |-> 111, KEY_LEFTMETA |-> 125, KEY_RIGHTMETA |-> 126, KEY_MAX |-> 767]

\* KEY_MAP: the key names and their codes
KEY_MAP ==
  "ctrl" :> key_code.KEY_LEFTCTRL @@ "control" :> key_code.KEY_LEFTCTRL @@
  "shift" :> key_code.KEY_LEFTSHIFT @@ "alt" :> key_code.KEY_LEFTALT @@
  "super" :> key_code.KEY_LEFTMETA @@ "meta" :> key_code.KEY_LEFTMETA @@
  "win" :> key_code.KEY_LEFTMETA @@ "a" :> key_code.KEY_A @@ "b" :> key_code.KEY_B @@
  "c" :> key_code.KEY_C @@ "d" :> key_code.KEY_D @@ "e" :> key_code.KEY_E @@ "f" :> key_code.KEY_F @@
  "g" :> key_code.KEY_G @@ "h" :> key_code.KEY_H @@ "i" :> key_code.KEY_I @@ "j" :> key_code.KEY_J @@
  "k" :> key_code.KEY_K @@ "l" :> key_code.KEY_L @@ "m" :> key_code.KEY_M @@ "n" :> key_code.KEY_N @@
  "o" :> key_code.KEY_O @@ "p" :> key_code.KEY_P @@ "q" :> key_code.KEY_Q @@ "r" :> key_code.KEY_R @@
  "s" :> key_code.KEY_S @@ "t" :> key_code.KEY_T @@ "u" :> key_code.KEY_U @@ "v" :> key_code.KEY_V @@
  "w" :> key_code.KEY_W @@ "x" :> key_code.KEY_X @@ "y" :> key_code.KEY_Y @@ "z" :> key_code.KEY_Z @@
  "0" :> key_code.KEY_0 @@ "1" :> key_code.KEY_1 @@ "2" :> key_code.KEY_2 @@ "3" :> key_code.KEY_3 @@
  "4" :> key_code.KEY_4 @@ "5" :> key_code.KEY_5 @@ "6" :> key_code.KEY_6 @@ "7" :> key_code.KEY_7 @@
  "8" :> key_code.KEY_8 @@ "9" :> key_code.KEY_9 @@ "f1" :> key_code.KEY_F1 @@
  "f2" :> key_code.KEY_F2 @@ "f3" :> key_code.KEY_F3 @@ "f4" :> key_code.KEY_F4 @@
  "f5" :> key_code.KEY_F5 @@ "f6" :> key_code.KEY_F6 @@ "f7" :> key_code.KEY_F7 @@
  "f8" :> key_code.KEY_F8 @@ "f9" :> key_code.KEY_F9 @@ "f10" :> key_code.KEY_F10 @@
  "f11" :> key_code.KEY_F11 @@ "f12" :> key_code.KEY_F12 @@ "f13" :> key_code.KEY_F13 @@
  "f14" :> key_code.KEY_F14 @@ "f15" :> key_code.KEY_F15 @@ "f16" :> key_code.KEY_F16 @@
  "f17" :> key_code.KEY_F17 @@ "f18" :> key_code.KEY_F18 @@ "f19" :> key_code.KEY_F19 @@
  "f20" :> key_code.KEY_F20 @@ "esc" :> key_code.KEY_ESC @@ "escape" :> key_code.KEY_ESC @@
  "tab" :> key_code.KEY_TAB @@ "space" :> key_code.KEY_SPACE @@ "enter" :> key_code.KEY_ENTER @@
  "return" :> key_code.KEY_ENTER @@ "backspace" :> key_code.KEY_BACKSPACE @@
  "delete" :> key_code.KEY_DELETE @@ "insert" :> key_code.KEY_INSERT @@
  "home" :> key_code.KEY_HOME @@ "end" :> key_code.KEY_END @@ "pageup" :> key_code.KEY_PAGEUP @@
  "pagedown" :> key_code.KEY_PAGEDOWN @@ "up" :> key_code.KEY_UP @@ "down" :> key_code.KEY_DOWN @@
  "left" :> key_code.KEY_LEFT @@ "right" :> key_code.KEY_RIGHT @@
  "capslock" :> key_code.KEY_CAPSLOCK @@ "minus" :> key_code.KEY_MINUS @@
  "equal" :> key_code.KEY_EQUAL @@ "leftbrace" :> key_code.KEY_LEFTBRACE @@
  "rightbrace" :> key_code.KEY_RIGHTBRACE @@ "semicolon" :> key_code.KEY_SEMICOLON @@
  "apostrophe" :> key_code.KEY_APOSTROPHE @@ "grave" :> key_code.KEY_GRAVE @@
  "backslash" :> key_code.KEY_BACKSLASH @@ "comma" :> key_code.KEY_COMMA @@
  "dot" :> key_code.KEY_DOT @@ "slash" :> key_code.KEY_SLASH

LowercaseLetters == "abcdefghijklmnopqrstuvwxyz"
UppercaseLetters == "ABCDEFGHIJKLMNOPQRSTUVWXYZ"

\* the character i of a string, as a string
CharAt(s, i) == SubSeq(s, i, i)

\* the entries of CHAR_MAP other than the letters: <<code, shift>> (all but the
\* grave accent, <<KEY_GRAVE, false>>, a character no string here can hold)
CHAR_MAP_other ==
  "0" :> <<key_code.KEY_0, FALSE>> @@ "1" :> <<key_code.KEY_1, FALSE>> @@
  "2" :> <<key_code.KEY_2, FALSE>> @@ "3" :> <<key_code.KEY_3, FALSE>> @@
  "4" :> <<key_code.KEY_4, FALSE>> @@ "5" :> <<key_code.KEY_5, FALSE>> @@
  "6" :> <<key_code.KEY_6, FALSE>> @@ "7" :> <<key_code.KEY_7, FALSE>> @@
  "8" :> <<key_code.KEY_8, FALSE>> @@ "9" :> <<key_code.KEY_9, FALSE>> @@
  "!" :> <<key_code.KEY_1, TRUE>> @@ "@" :> <<key_code.KEY_2, TRUE>> @@
  "#" :> <<key_code.KEY_3, TRUE>> @@ "$" :> <<key_code.KEY_4, TRUE>> @@
  "%" :> <<key_code.KEY_5, TRUE>> @@ "^" :> <<key_code.KEY_6, TRUE>> @@
  "&" :> <<key_code.KEY_7, TRUE>> @@ "*" :> <<key_code.KEY_8, TRUE>> @@
  "(" :> <<key_code.KEY_9, TRUE>> @@ ")" :> <<key_code.KEY_0, TRUE>> @@
  " " :> <<key_code.KEY_SPACE, FALSE>> @@ "\n" :> <<key_code.KEY_ENTER, FALSE>> @@
  "\t" :> <<key_code.KEY_TAB, FALSE>> @@ "-" :> <<key_code.KEY_MINUS, FALSE>> @@
  "_" :> <<key_code.KEY_MINUS, TRUE>> @@ "=" :> <<key_code.KEY_EQUAL, FALSE>> @@
  "+" :> <<key_code.KEY_EQUAL, TRUE>> @@ "[" :> <<key_code.KEY_LEFTBRACE, FALSE>> @@
  "{" :> <<key_code.KEY_LEFTBRACE, TRUE>> @@ "]" :> <<key_code.KEY_RIGHTBRACE, FALSE>> @@
  "}" :> <<key_code.KEY_RIGHTBRACE, TRUE>> @@ ";" :> <<key_code.KEY_SEMICOLON, FALSE>> @@
  ":" :> <<key_code.KEY_SEMICOLON, TRUE>> @@ "'" :> <<key_code.KEY_APOSTROPHE, FALSE>> @@
  "\"" :> <<key_code.KEY_APOSTROPHE, TRUE>> @@
  "~" :> <<key_code.KEY_GRAVE, TRUE>> @@ "\\" :> <<key_code.KEY_BACKSLASH, FALSE>> @@
  "|" :> <<key_code.KEY_BACKSLASH, TRUE>> @@ "," :> <<key_code.KEY_COMMA, FALSE>> @@
  "<" :> <<key_code.KEY_COMMA, TRUE>> @@ "." :> <<key_code.KEY_DOT, FALSE>> @@
  ">" :> <<key_code.KEY_DOT, TRUE>> @@ "/" :> <<key_code.KEY_SLASH, FALSE>> @@
  "?" :> <<key_code.KEY_SLASH, TRUE>>

\* CHAR_MAP: <<code, shift>> of a character; the letter i (from 0) of 'a'..='z'
\* and of 'A'..='Z' has the code KEY_A + i
CHAR_MAP ==
  [c \in {CharAt(LowercaseLetters, i) : i \in 1..26} |->
     <<key_code.KEY_A + (CHOOSE i \in 1..26 : CharAt(LowercaseLetters, i) = c) - 1, FALSE>>]
    @@ [c \in {CharAt(UppercaseLetters, i) : i \in 1..26} |->
          <<key_code.KEY_A + (CHOOSE i \in 1..26 : CharAt(UppercaseLetters, i) = c) - 1, TRUE>>]
    @@ CHAR_MAP_other

\* str::trim for the white space of the strings used here
RECURSIVE trim(_)
trim(s) ==
  IF Len(s) > 0 /\ CharAt(s, 1) \in {" ", "\t", "\n"} THEN trim(SubSeq(s, 2, Len(s)))
  ELSE IF Len(s) > 0 /\ CharAt(s, Len(s)) \in {" ", "\t", "\n"}
    THEN trim(SubSeq(s, 1, Len(s) - 1))
  ELSE s

\* str::to_lowercase for ASCII
RECURSIVE to_lowercase(_)
to_lowercase(s) ==
  IF Len(s) = 0 THEN s
  ELSE (IF \E i \in 1..26 : CharAt(UppercaseLetters, i) = CharAt(s, 1)
          THEN CharAt(LowercaseLetters,
                      CHOOSE i \in 1..26 : CharAt(UppercaseLetters, i) = CharAt(s, 1))
          ELSE CharAt(s, 1))
         \o to_lowercase(SubSeq(s, 2, Len(s)))

\* name.strip_prefix(prefix).unwrap_or(name)
strip_prefix(name, prefix) ==
  IF Len(name) >= Len(prefix) /\ SubSeq(name, 1, Len(prefix)) = prefix
    THEN SubSeq(name, Len(prefix) + 1, Len(name))
    ELSE name

\* str::split for a separator of one character
RECURSIVE split(_, _)
split(s, sep) ==
  LET at == {i \in 1..Len(s) : CharAt(s, i) = sep}
      first == CHOOSE i \in at : \A j \in at : i <= j
  IN  IF at = {} THEN <<s>>
      ELSE <<SubSeq(s, 1, first - 1)>> \o split(SubSeq(s, first + 1, Len(s)), sep)

\* VirtualKeyboard::parse_key: Some(code) as the code, None as 0
parse_key(name) ==
  LET n == strip_prefix(to_lowercase(trim(name)), "key_")
  IN  IF n \in DOMAIN KEY_MAP THEN KEY_MAP[n] ELSE 0

\* what press and release write: an EV_KEY event of the key with value 1 or 0
\* (and a SYN_REPORT)
press(key) == [key |-> key, value |-> 1]
release(key) == [key |-> key, value |-> 0]
click(key) == <<press(key), release(key)>>

\* what a call of the keyboard leaves: the events written, in order, and the
\* parts it logs as unknown
NoEmission == [events |-> <<>>, unknown |-> <<>>]

\* VirtualKeyboard::typeout with a table of characters
RECURSIVE typeout_with(_, _)
typeout_with(map, text) ==
  IF Len(text) = 0 THEN <<>>
  ELSE LET c == CharAt(text, 1)
       IN  (IF c \in DOMAIN map
              THEN (IF map[c][2] THEN <<press(key_code.KEY_LEFTSHIFT)>> ELSE <<>>)
                     \o click(map[c][1])
                     \o (IF map[c][2] THEN <<release(key_code.KEY_LEFTSHIFT)>> ELSE <<>>)
              ELSE <<>>)
             \o typeout_with(map, SubSeq(text, 2, Len(text)))

\* VirtualKeyboard::typeout: a character CHAR_MAP does not hold is passed over
typeout(text) == [events |-> typeout_with(CHAR_MAP, text), unknown |-> <<>>]

\* VirtualKeyboard::shortcut: the keys of the parts that parse are pressed in
\* order and released in reverse order
shortcut(s) ==
  LET parts == [i \in 1..Len(split(s, "+")) |-> trim(split(s, "+")[i])]
      pressed == SelectSeq([i \in 1..Len(parts) |-> parse_key(parts[i])],
                           LAMBDA k : k # 0)
  IN  [events |-> [i \in 1..Len(pressed) |-> press(pressed[i])]
                    \o [i \in 1..Len(pressed) |-> release(pressed[Len(pressed) + 1 - i])],
       unknown |-> SelectSeq(parts, LAMBDA part : parse_key(part) = 0)]

\* the loop of sequence over the parts that split(',') gives
RECURSIVE sequence_parts(_)
sequence_parts(parts) ==
  IF parts = <<>> THEN NoEmission
  ELSE LET part == trim(Head(parts))
           head == IF part # "" THEN shortcut(part) ELSE NoEmission
           rest == sequence_parts(Tail(parts))
       IN  [events |-> head.events \o rest.events, unknown |-> head.unknown \o rest.unknown]

\* VirtualKeyboard::sequence
keyboard_sequence(seq) == sequence_parts(split(seq, ","))

\* MacroExecutor::emit_uinput_key
emit_uinput_key(key_name) ==
  IF parse_key(key_name) # 0
    THEN [events |-> click(parse_key(key_name)), unknown |-> <<>>]
    ELSE [events |-> <<>>, unknown |-> <<key_name>>]

\* MacroExecutor::execute: what the virtual keyboard is made to write (Run
\* spawns a shell, Nothing does nothing)
execute(macro_def) ==
  CASE macro_def.hotkey_type = "Shortcut" -> shortcut(macro_def.action)
    [] macro_def.hotkey_type = "Typeout" -> typeout(macro_def.action)
    [] macro_def.hotkey_type = "Uinput" -> emit_uinput_key(macro_def.action)
    [] macro_def.hotkey_type = "Sequence" -> keyboard_sequence(macro_def.action)
    [] OTHER -> NoEmission

(* ---------------------------------------------------------------------- *)
(* State                                                                  *)
(* ---------------------------------------------------------------------- *)
VARIABLES
  pc,                 \* main: where the event loop is ("top", "read", "classify")
  current_profile,    \* main: current_profile
  state,              \* recorder.state
  threads,            \* the capture threads: stop_flag, channel, ModifierState
  config,             \* main: config
  ledq,               \* LedController.tx: the commands sent and not yet received
  led,                \* led_worker's locals and its position
  mr_led_write_time,  \* LedController.mr_led_write_time
  hid,                \* the device: its MR indicator and the reports it echoes
  clock,              \* current_time_ms() / Instant::now(), in ms
  write_time,         \* is_mr_event_from_led: what it loaded from the marker
  out,                \* what the last pass of the event loop did
  reads,              \* how many reports the event loop has read (SpecRecorder:
                      \* how many calls of the recorder were made)
  report,             \* SpecDecode: the bytes the first read of the device yields
  conn,               \* main: running, reconnect_delay, whether led_controller is
                      \* Some and holds its sender (tx); what the last sleep slept,
                      \* the failed opens since the last open that succeeded, and
                      \* whether LedController::new has failed since then
  hist                \* the marker's history: stores, answers true (selfs), whether
                      \* a store followed the last of them (pending), answers
                      \* true to a report that echoes no write (taken), the
                      \* stores at the load of the call under way (seen), stores of 0
                      \* over a marker stored after the load (lost)

vars ==
  <<pc, current_profile, state, threads, config, ledq, led, mr_led_write_time, hid,
    clock, write_time, out, reads, report, conn, hist>>

\* a capture thread slot: no thread yet (log: the chords the thread has sent, in
\* the order of its sends; held: the modifiers whose last press or release
\* fetched by the thread was a press; errs: the fetches of the thread that
\* returned an error)
NoThread ==
  [status |-> "none", stop_flag |-> FALSE, rx |-> FALSE, queue |-> <<>>,
   modifier_state |-> NoModifiers, sent |-> 0, log |-> <<>>, held |-> NoModifiers,
   errs |-> 0]

\* a capture thread that has returned: its locals, its flag and its end of the
\* channel are gone
ExitedThread ==
  [status |-> "exited", stop_flag |-> FALSE, rx |-> FALSE, queue |-> <<>>,
   modifier_state |-> NoModifiers, sent |-> 0, log |-> <<>>, held |-> NoModifiers,
   errs |-> 0]

\* start_capture_thread: the channel, the flag and the spawned thread
NewThread ==
  [status |-> "running", stop_flag |-> FALSE, rx |-> TRUE, queue |-> <<>>,
   modifier_state |-> NoModifiers, sent |-> 0, log |-> <<>>, held |-> NoModifiers,
   errs |-> 0]

(* ---------------------------------------------------------------------- *)
(* Recorder (recording.rs)                                                *)
(* ---------------------------------------------------------------------- *)
\* Recorder::is_recording, Recorder::is_awaiting
is_recording(st) == st.tag = "Recording"
is_awaiting(st) == st.tag = "AwaitingGKey"

\* on_mr_press_idle with the profile the daemon starts with in place of the
\* caller's
on_mr_press_idle_first_profile(st, ths, profile) ==
  [state |-> AwaitingGKey("MEMORY_1"), threads |-> ths, action |-> EnterAwaiting]

\* Recorder::on_mr_press, the arm for Idle: the new state, the threads after
\* it and the action returned
on_mr_press_idle(st, ths, profile) ==
  [state |-> AwaitingGKey(profile), threads |-> ths, action |-> EnterAwaiting]

\* on_mr_press_awaiting that reports the cancellation and stays where it is
on_mr_press_awaiting_stays(st, ths, profile) ==
  [state |-> st, threads |-> ths, action |-> CancelledNoGKey]

\* Recorder::on_mr_press, the arm for AwaitingGKey
on_mr_press_awaiting(st, ths, profile) ==
  [state |-> Idle, threads |-> ths, action |-> CancelledNoGKey]

\* on_mr_press_recording without the final drain of the receiver
on_mr_press_recording_no_drain(st, ths, profile) ==
  LET captured_keys == st.captured_keys
      sequence == Join(captured_keys, ", ")
  IN  [state |-> Idle,
       threads |-> [ths EXCEPT ![st.thread].stop_flag = TRUE,
                               ![st.thread].queue = <<>>,
                               ![st.thread].rx = FALSE],
       action |-> IF captured_keys = <<>>
                    THEN CancelledEmpty
                    ELSE SaveMacro(st.profile, st.gkey, sequence)]

\* Recorder::on_mr_press, the arm for Recording: it stores the stop flag, drains
\* the receiver and drops receiver and JoinHandle (the thread is not joined)
on_mr_press_recording(st, ths, profile) ==
  LET captured_keys == st.captured_keys \o ths[st.thread].queue
      sequence == Join(captured_keys, ", ")
  IN  [state |-> Idle,
       threads |-> [ths EXCEPT ![st.thread].stop_flag = TRUE,
                               ![st.thread].queue = <<>>,
                               ![st.thread].rx = FALSE],
       action |-> IF captured_keys = <<>>
                    THEN CancelledEmpty
                    ELSE SaveMacro(st.profile, st.gkey, sequence)]

\* Recorder::on_mr_press
on_mr_press(st, ths, profile) ==
  CASE st.tag = "Idle" -> on_mr_press_idle(st, ths, profile)
    [] st.tag = "AwaitingGKey" -> on_mr_press_awaiting(st, ths, profile)
    [] st.tag = "Recording" -> on_mr_press_recording(st, ths, profile)

\* the slot the next capture thread takes (0: none left in the model)
FreeThread(ths) ==
  IF \E t \in DOMAIN ths : ths[t].status = "none"
    THEN CHOOSE t \in DOMAIN ths :
           ths[t].status = "none" /\ \A u \in DOMAIN ths : ths[u].status = "none" => t <= u
    ELSE 0

\* what find_keyboard_evdev and start_capture_thread can come to
StartOutcomes == {"ok", "not_found", "open_failed"}

\* ... when on_gkey_press gets to them
StartChoices(event, st, ths) ==
  IF event.tag = "GKey" /\ is_awaiting(st)
    THEN IF FreeThread(ths) = 0 THEN StartOutcomes \ {"ok"} ELSE StartOutcomes
    ELSE {"ok"}

\* what config.save() can come to when SaveMacro is executed
SaveChoices(event, st) == IF event = MRKey /\ is_recording(st) THEN BOOLEAN ELSE {TRUE}

\* on_gkey_press_awaiting that records the key by its index from 0
on_gkey_press_awaiting_from_zero(st, ths, gkey, start) ==
  CASE start = "ok" ->
         [state |-> Recording(st.profile, gkey - 1, <<>>, FreeThread(ths)),
          threads |-> [ths EXCEPT ![FreeThread(ths)] = NewThread],
          action |-> StartedRecording(gkey)]
    [] start = "open_failed" ->
         [state |-> Idle, threads |-> ths, action |-> Error("Failed to start capture: open")]
    [] start = "not_found" ->
         [state |-> Idle, threads |-> ths, action |-> Error("Keyboard device not found")]

\* on_gkey_press_awaiting that puts the state back when the capture thread
\* cannot be started
on_gkey_press_awaiting_put_back(st, ths, gkey, start) ==
  CASE start = "ok" ->
         [state |-> Recording(st.profile, gkey, <<>>, FreeThread(ths)),
          threads |-> [ths EXCEPT ![FreeThread(ths)] = NewThread],
          action |-> StartedRecording(gkey)]
    [] start = "open_failed" ->
         [state |-> st, threads |-> ths, action |-> Error("Failed to start capture: open")]
    [] start = "not_found" ->
         [state |-> st, threads |-> ths, action |-> Error("Keyboard device not found")]

\* Recorder::on_gkey_press in AwaitingGKey; start is how find_keyboard_evdev and
\* start_capture_thread end
on_gkey_press_awaiting(st, ths, gkey, start) ==
  CASE start = "ok" ->
         [state |-> Recording(st.profile, gkey, <<>>, FreeThread(ths)),
          threads |-> [ths EXCEPT ![FreeThread(ths)] = NewThread],
          action |-> StartedRecording(gkey)]
    [] start = "open_failed" ->
         [state |-> Idle, threads |-> ths, action |-> Error("Failed to start capture: open")]
    [] start = "not_found" ->
         [state |-> Idle, threads |-> ths, action |-> Error("Keyboard device not found")]

\* on_gkey_press_other that leaves the Idle of mem::replace behind
on_gkey_press_other_taken(st, ths, gkey, start) ==
  [state |-> Idle, threads |-> ths, action |-> ActNone]

\* Recorder::on_gkey_press in another state: the state is put back
on_gkey_press_other(st, ths, gkey, start) ==
  [state |-> st, threads |-> ths, action |-> ActNone]

\* Recorder::on_gkey_press
on_gkey_press(st, ths, gkey, start) ==
  IF st.tag = "AwaitingGKey"
    THEN on_gkey_press_awaiting(st, ths, gkey, start)
    ELSE on_gkey_press_other(st, ths, gkey, start)

\* poll_captured_keys that keeps only what this poll received
poll_captured_keys_overwrite(st, ths) ==
  IF st.tag = "Recording"
    THEN [state |-> [st EXCEPT !.captured_keys = ths[st.thread].queue],
          threads |-> [ths EXCEPT ![st.thread].queue = <<>>]]
    ELSE [state |-> st, threads |-> ths]

\* Recorder::poll_captured_keys
poll_captured_keys(st, ths) ==
  IF st.tag = "Recording"
    THEN [state |-> [st EXCEPT !.captured_keys = @ \o ths[st.thread].queue],
          threads |-> [ths EXCEPT ![st.thread].queue = <<>>]]
    ELSE [state |-> st, threads |-> ths]

(* ---------------------------------------------------------------------- *)
(* capture_loop (recording.rs): one pass of the loop per step. A pass that *)
(* fetches several events is the passes that fetch them one by one: the    *)
(* flag is stored together with the drop of the receiver, after which      *)
(* every send fails.                                                       *)
(* ---------------------------------------------------------------------- *)
\* value of a key event: 0 release, 1 press, 2 repeat
KeyValues == 0..2

\* a pass that sees the stop flag set and goes on
CaptureStop_goes_on(t) ==
  /\ threads[t].status = "running"
  /\ threads[t].stop_flag
  /\ UNCHANGED vars

\* the pass sees the stop flag set and breaks
CaptureStop(t) ==
  /\ threads[t].status = "running"
  /\ threads[t].stop_flag
  /\ threads' = [threads EXCEPT ![t] = ExitedThread]
  /\ UNCHANGED <<conn, pc, current_profile, state, config, ledq, led, mr_led_write_time,
                 hid, clock, write_time, out, reads, hist, report>>

\* an Err arm that returns also when the flag is clear
CaptureFetchErr_returns(t) ==
  /\ threads[t].status = "running"
  /\ threads[t].errs < MaxErrs
  /\ threads' = [threads EXCEPT ![t] = ExitedThread]
  /\ UNCHANGED <<conn, pc, current_profile, state, config, ledq, led, mr_led_write_time,
                 hid, clock, write_time, out, reads, hist, report>>

\* fetch_events returns Err (EAGAIN or any other error): the Err arm breaks
\* when the flag is set, else it sleeps 10 ms and the loop goes on
CaptureFetchErr(t) ==
  /\ threads[t].status = "running"
  /\ threads[t].errs < MaxErrs
  /\ threads' = [threads EXCEPT ![t] = IF threads[t].stop_flag
                                         THEN ExitedThread
                                         ELSE [@ EXCEPT !.errs = @ + 1]]
  /\ UNCHANGED <<conn, pc, current_profile, state, config, ledq, led, mr_led_write_time,
                 hid, clock, write_time, out, reads, hist, report>>

\* the thread after the key event (key, value) of a fetch
capture_event(th, key, value) ==
  LET pressed == value = 1
      modifier_state == update(th.modifier_state, key, pressed)
      key_str == format_with_key(modifier_state, key)
      held == IF value = 2 THEN th.held ELSE update(th.held, key, pressed)
  IN  IF IsModifier(key)
        THEN [th EXCEPT !.modifier_state = modifier_state, !.held = held]
      ELSE IF pressed /\ key_str # ""
        THEN IF th.rx
               THEN [th EXCEPT !.queue = Append(@, key_str), !.sent = @ + 1,
                               !.log = Append(@, key_str)]
               ELSE ExitedThread
        ELSE th

\* a pass that began before the flag was stored fetches a key press and sends
\* its chord after the receiver was dropped: the send fails and the thread returns
CaptureSendFails(t) ==
  /\ threads[t].status = "running"
  /\ ~threads[t].rx
  /\ \E key \in CaptureKeys :
       /\ ~IsModifier(key)
       /\ threads' = [threads EXCEPT ![t] = capture_event(threads[t], key, 1)]
  /\ UNCHANGED <<pc, current_profile, state, config, ledq, led, mr_led_write_time, hid,
                 clock, write_time, out, reads, report, conn, hist>>

\* the pass fetches a key event, of one of the keys and values given
CaptureKeyFrom(t, keys, values) ==
  /\ threads[t].status = "running"
  /\ ~threads[t].stop_flag
  /\ \E key \in keys, value \in values :
       /\ capture_event(threads[t], key, value).sent <= MaxChords
       /\ threads' = [threads EXCEPT ![t] = capture_event(threads[t], key, value)]
  /\ UNCHANGED <<conn, pc, current_profile, state, config, ledq, led, mr_led_write_time,
                 hid, clock, write_time, out, reads, hist, report>>

\* the pass fetches a key event
CaptureKey(t) == CaptureKeyFrom(t, CaptureKeys, KeyValues)

(* ---------------------------------------------------------------------- *)
(* main.rs: handle_event_for_recording, handle_recording_action,          *)
(* handle_event                                                            *)
(* ---------------------------------------------------------------------- *)
\* handle_event_for_recording that does not ask is_mr_event_from_led
handle_event_for_recording_unfiltered(event, st, ths, profile, from_led, start) ==
  CASE event = MRKey ->
         LET r == on_mr_press(st, ths, profile)
         IN  [some |-> r.action # ActNone, state |-> r.state,
              threads |-> r.threads, action |-> r.action]
    [] event.tag = "GKey" /\ is_awaiting(st) ->
         LET r == on_gkey_press(st, ths, event.n, start)
         IN  [some |-> TRUE, state |-> r.state, threads |-> r.threads, action |-> r.action]
    [] OTHER -> [some |-> FALSE, state |-> st, threads |-> ths, action |-> ActNone]

\* handle_event_for_recording: some is whether it returns Some(action);
\* from_led is what is_mr_event_from_led answered (read for MRKey only)
handle_event_for_recording(event, st, ths, profile, from_led, start) ==
  CASE event = MRKey ->
         IF from_led
           THEN [some |-> FALSE, state |-> st, threads |-> ths, action |-> ActNone]
           ELSE LET r == on_mr_press(st, ths, profile)
                IN  [some |-> r.action # ActNone, state |-> r.state,
                     threads |-> r.threads, action |-> r.action]
    [] event.tag = "GKey" /\ is_awaiting(st) ->
         LET r == on_gkey_press(st, ths, event.n, start)
         IN  [some |-> TRUE, state |-> r.state, threads |-> r.threads, action |-> r.action]
    [] OTHER -> [some |-> FALSE, state |-> st, threads |-> ths, action |-> ActNone]

\* handle_recording_action that keeps the macro only when config.save() succeeds
handle_recording_action_rollback(action, cfg, save_ok) ==
  IF action.tag = "SaveMacro"
    THEN [sent |-> <<QuickFlashMr(MR_QUICK_FLASH_COUNT), TurnOffGKeys>>,
          config |-> IF save_ok
                       THEN set_macro(cfg, action.profile, MacroName(action.gkey),
                                      Macro("Sequence", action.text))
                       ELSE cfg,
          notify |-> IF save_ok THEN "Recorded G" \o Digits[action.gkey]
                                ELSE "Recording failed"]
    ELSE [sent |-> <<>>, config |-> cfg, notify |-> ""]

\* handle_recording_action: the LED commands it sends, the config after it and
\* the notification it spawns; save_ok is whether config.save() succeeds
handle_recording_action(action, cfg, save_ok) ==
  CASE action.tag = "EnterAwaiting" ->
         [sent |-> <<SetMrLed(TRUE), SetAllGKeysLed(255, 255, 255)>>, config |-> cfg,
          notify |-> ""]
    [] action.tag = "StartedRecording" ->
         [sent |-> <<SetGKeysRecording(action.gkey), StartMrFlashing>>, config |-> cfg,
          notify |-> "Recording G" \o Digits[action.gkey]]
    [] action.tag = "SaveMacro" ->
         [sent |-> <<QuickFlashMr(MR_QUICK_FLASH_COUNT), TurnOffGKeys>>,
          config |-> set_macro(cfg, action.profile, MacroName(action.gkey),
                               Macro("Sequence", action.text)),
          notify |-> IF save_ok THEN "Recorded G" \o Digits[action.gkey]
                                ELSE "Recording failed"]
    [] action.tag = "CancelledEmpty" ->
         [sent |-> <<StopMrFlashing, TurnOffGKeys>>, config |-> cfg,
          notify |-> "Recording cancelled"]
    [] action.tag = "CancelledNoGKey" ->
         [sent |-> <<SetMrLed(FALSE), TurnOffGKeys>>, config |-> cfg, notify |-> ""]
    [] action.tag = "Error" ->
         [sent |-> <<StopMrFlashing, TurnOffGKeys>>, config |-> cfg,
          notify |-> "Recording error"]
    [] OTHER -> [sent |-> <<>>, config |-> cfg, notify |-> ""]

\* handle_event: the profile after it, the LED commands it sends, the macros it
\* executes and the notification it spawns
handle_event(event, cfg, profile) ==
  CASE event.tag = "GKey" ->
         [current_profile |-> profile, sent |-> <<>>,
          executed |-> get_macro(cfg, profile, MacroName(event.n)), notify |-> ""]
    [] event.tag = "MKey" /\ profile # ProfileName(event.n) ->
         [current_profile |-> ProfileName(event.n), sent |-> <<SetProfileLed(event.n)>>,
          executed |-> {},
          notify |-> IF cfg.notify THEN "Profile M" \o Digits[event.n] ELSE ""]
    [] OTHER -> [current_profile |-> profile, sent |-> <<>>, executed |-> {}, notify |-> ""]

\* u64::saturating_sub
saturating_sub(a, b) == IF a >= b THEN a - b ELSE 0

\* what a pass of the event loop (call "main") or a call of the recorder leaves
\* in out; stored is the marker the LED thread stored for the write that the
\* event read echoes (0: the event is no echo of an MR write), age is the
\* now - write_time that is_mr_event_from_led computed (0: it computed none),
\* emitted is what executor.execute made the virtual keyboard write for the
\* macro executed
Out(call, event, stored, from_led, action, sent, notify, executed) ==
  [call |-> call, event |-> event, stored |-> stored, from_led |-> from_led,
   action |-> action, sent |-> sent, notify |-> notify, executed |-> executed,
   emitted |-> IF executed = {} THEN NoEmission
               ELSE execute(CHOOSE macro_def \in executed : TRUE),
   age |-> IF pc = "classify" THEN saturating_sub(clock, write_time) ELSE 0]

\* the dispatch that handles an event the recorder leaves alone as an ordinary
\* one in every state of the recorder
Dispatch_ordinary_in_every_state(event, stored, from_led, start, save_ok) ==
  LET r == handle_event_for_recording(event, state, threads, current_profile, from_led, start)
      a == handle_recording_action(r.action, config, save_ok)
      e == handle_event(event, config, current_profile)
      ordinary == ~r.some
  IN  /\ state' = r.state
      /\ threads' = r.threads
      /\ config' = IF r.some THEN a.config ELSE config
      /\ current_profile' = IF ordinary THEN e.current_profile ELSE current_profile
      /\ ledq' = ledq \o (IF r.some THEN a.sent ELSE IF ordinary THEN e.sent ELSE <<>>)
      /\ out' = Out("main", event, stored, from_led, r.action,
                    IF r.some THEN a.sent ELSE IF ordinary THEN e.sent ELSE <<>>,
                    IF r.some THEN a.notify ELSE IF ordinary THEN e.notify ELSE "",
                    IF ordinary THEN e.executed ELSE {})

\* the dispatch that asks only is_awaiting before it handles an event as an
\* ordinary one
Dispatch_ordinary_while_recording(event, stored, from_led, start, save_ok) ==
  LET r == handle_event_for_recording(event, state, threads, current_profile, from_led, start)
      a == handle_recording_action(r.action, config, save_ok)
      e == handle_event(event, config, current_profile)
      ordinary == ~r.some /\ ~is_awaiting(r.state)
  IN  /\ state' = r.state
      /\ threads' = r.threads
      /\ config' = IF r.some THEN a.config ELSE config
      /\ current_profile' = IF ordinary THEN e.current_profile ELSE current_profile
      /\ ledq' = ledq \o (IF r.some THEN a.sent ELSE IF ordinary THEN e.sent ELSE <<>>)
      /\ out' = Out("main", event, stored, from_led, r.action,
                    IF r.some THEN a.sent ELSE IF ordinary THEN e.sent ELSE <<>>,
                    IF r.some THEN a.notify ELSE IF ordinary THEN e.notify ELSE "",
                    IF ordinary THEN e.executed ELSE {})

\* main, lines 127-146: the event is offered to the recorder, its action is
\* executed, and an event the recorder leaves alone is handled as an ordinary
\* one when the recorder is idle
Dispatch(event, stored, from_led, start, save_ok) ==
  LET r == handle_event_for_recording(event, state, threads, current_profile, from_led, start)
      a == handle_recording_action(r.action, config, save_ok)
      e == handle_event(event, config, current_profile)
      ordinary == ~r.some /\ ~is_recording(r.state) /\ ~is_awaiting(r.state)
  IN  /\ state' = r.state
      /\ threads' = r.threads
      /\ config' = IF r.some THEN a.config ELSE config
      /\ current_profile' = IF ordinary THEN e.current_profile ELSE current_profile
      /\ ledq' = ledq \o (IF r.some THEN a.sent ELSE IF ordinary THEN e.sent ELSE <<>>)
      /\ out' = Out("main", event, stored, from_led, r.action,
                    IF r.some THEN a.sent ELSE IF ordinary THEN e.sent ELSE <<>>,
                    IF r.some THEN a.notify ELSE IF ordinary THEN e.notify ELSE "",
                    IF ordinary THEN e.executed ELSE {})

(* ---------------------------------------------------------------------- *)
(* LedController::is_mr_event_from_led and the event loop of main         *)
(* ---------------------------------------------------------------------- *)
\* within_debounce without the window
within_debounce_any_age(now, wt) == TRUE

\* within_debounce with the window's end counted in
within_debounce_inclusive(now, wt) == saturating_sub(now, wt) <= MR_LED_DEBOUNCE_MS

\* is_mr_event_from_led once it has loaded write_time # 0 and read the clock:
\* whether it stores 0 and answers true
within_debounce(now, wt) == saturating_sub(now, wt) < MR_LED_DEBOUNCE_MS

\* is_mr_event_from_led that answers without storing 0
is_mr_event_from_led_no_clear(now, wt, marker) ==
  IF within_debounce(now, wt)
    THEN [from_led |-> TRUE, marker |-> marker]
    ELSE [from_led |-> FALSE, marker |-> marker]

\* is_mr_event_from_led, lines 97-104, with write_time # 0 loaded: its answer
\* and the marker after it
is_mr_event_from_led(now, wt, marker) ==
  IF within_debounce(now, wt)
    THEN [from_led |-> TRUE, marker |-> 0]
    ELSE [from_led |-> FALSE, marker |-> marker]

\* main, lines 108-117: the top of the inner loop polls the capture channel
LoopTop ==
  /\ pc = "top"
  /\ conn.running
  /\ pc' = "read"
  /\ state' = poll_captured_keys(state, threads).state
  /\ threads' = poll_captured_keys(state, threads).threads
  /\ UNCHANGED <<conn, current_profile, config, ledq, led, mr_led_write_time, hid,
                 clock, write_time, out, reads, hist, report>>

\* main, lines 120-146, up to is_mr_event_from_led's load of the marker: an
\* MRKey with a marker pending goes on in Classify, every other event is
\* dispatched here. stored # 0: the report is the oldest one the device echoes.
ReadEventUpTo(event, stored, bound) ==
  /\ pc = "read"
  /\ reads < bound
  /\ reads' = reads + 1
  /\ IF event = MRKey /\ mr_led_write_time # 0
       THEN /\ pc' = "classify"
            /\ write_time' = mr_led_write_time
            /\ hist' = [hist EXCEPT !.seen = hist.stores]
            /\ out' = Out("main", event, stored, FALSE, ActNone, <<>>, "", {})
            /\ UNCHANGED <<current_profile, state, threads, config, ledq>>
       ELSE /\ pc' = "top"
            /\ \E start \in StartChoices(event, state, threads),
                  save_ok \in SaveChoices(event, state) :
                 Dispatch(event, stored, FALSE, start, save_ok)
            /\ UNCHANGED <<write_time, hist>>
  /\ UNCHANGED <<conn, led, mr_led_write_time, clock, report>>

ReadEvent(event, stored) == ReadEventUpTo(event, stored, MaxReads)

\* the report read is one a key of the user caused
ReadUser(events) ==
  /\ \E event \in events : ReadEvent(event, 0)
  /\ UNCHANGED hid

\* the report read is the oldest one the device echoes for a write of the LED thread
ReadEcho ==
  /\ hid.echo # <<>>
  /\ ReadEvent(Head(hid.echo).event, Head(hid.echo).stored)
  /\ hid' = [hid EXCEPT !.echo = Tail(@)]

\* Ok(None): the read timed out (Recording only) or the report does not decode
ReadNone ==
  /\ pc = "read"
  /\ reads < MaxReads
  /\ reads' = reads + 1
  /\ pc' = "top"
  /\ out' = Out("main", NoEvent, 0, FALSE, ActNone, <<>>, "", {})
  /\ UNCHANGED <<conn, current_profile, state, threads, config, ledq, led,
                 mr_led_write_time, hid, clock, write_time, hist, report>>

\* a read that waits for a report also while the recorder is Recording
ReadTimeout_blocks ==
  /\ pc = "read"
  /\ is_recording(state)
  /\ UNCHANGED vars

\* main, lines 120-124 and 147: while the recorder is Recording the read is
\* read_event, whose poll returns 0 after 100 ms without a report: Ok(None)
\* (read_event_blocking, used otherwise, waits for a report)
ReadTimeout ==
  /\ pc = "read"
  /\ is_recording(state)
  /\ pc' = "top"
  /\ out' = Out("main", NoEvent, 0, FALSE, ActNone, <<>>, "", {})
  /\ UNCHANGED <<conn, current_profile, state, threads, config, ledq, led,
                 mr_led_write_time, hid, clock, write_time, reads, hist, report>>

\* is_mr_event_from_led from its read of the clock on, and the dispatch of the
\* MRKey after it
Classify ==
  /\ pc = "classify"
  /\ pc' = "top"
  /\ write_time' = 0
  /\ LET c == is_mr_event_from_led(clock, write_time, mr_led_write_time)
     IN  /\ mr_led_write_time' = c.marker
         /\ hist' = IF c.from_led
                      THEN [hist EXCEPT !.selfs = @ + 1, !.pending = FALSE,
                                        !.taken = @ + (IF out.stored = 0 THEN 1 ELSE 0),
                                        !.seen = 0,
                                        !.lost = @ + (IF hist.stores # hist.seen
                                                        THEN 1 ELSE 0)]
                      ELSE [hist EXCEPT !.seen = 0]
         /\ \E save_ok \in (IF c.from_led THEN {TRUE} ELSE SaveChoices(MRKey, state)) :
              Dispatch(MRKey, out.stored, c.from_led, "ok", save_ok)
  /\ UNCHANGED <<conn, led, hid, clock, reads, report>>

(* ---------------------------------------------------------------------- *)
(* The recorder called as its callers may call it (its methods are pub):  *)
(* any method in any state                                                 *)
(* ---------------------------------------------------------------------- *)
CallOut(call, event, action) == Out(call, event, 0, FALSE, action, <<>>, "", {})

CallMrPress ==
  /\ reads < MaxReads
  /\ reads' = reads + 1
  /\ \E n \in MKeys :
       LET r == on_mr_press(state, threads, ProfileName(n))
       IN  /\ state' = r.state
           /\ threads' = r.threads
           /\ out' = CallOut("on_mr_press", MRKey, r.action)
  /\ UNCHANGED <<conn, pc, current_profile, config, ledq, led, mr_led_write_time, hid,
                 clock, write_time, hist, report>>

CallGKeyPress ==
  /\ reads < MaxReads
  /\ reads' = reads + 1
  /\ \E gkey \in GKeys :
       \E start \in StartChoices(GKey(gkey), state, threads) :
         LET r == on_gkey_press(state, threads, gkey, start)
         IN  /\ state' = r.state
             /\ threads' = r.threads
             /\ out' = CallOut("on_gkey_press", GKey(gkey), r.action)
  /\ UNCHANGED <<conn, pc, current_profile, config, ledq, led, mr_led_write_time, hid,
                 clock, write_time, hist, report>>

CallPoll ==
  /\ reads < MaxReads
  /\ reads' = reads + 1
  /\ state' = poll_captured_keys(state, threads).state
  /\ threads' = poll_captured_keys(state, threads).threads
  /\ out' = CallOut("poll_captured_keys", NoEvent, ActNone)
  /\ UNCHANGED <<conn, pc, current_profile, config, ledq, led, mr_led_write_time, hid,
                 clock, write_time, hist, report>>

\* handle_event_for_recording alone, with an event that is_mr_event_from_led
\* does not claim
CallHandleEvent ==
  /\ reads < MaxReads
  /\ reads' = reads + 1
  /\ \E event \in Events :
       \E start \in StartChoices(event, state, threads) :
         LET r == handle_event_for_recording(event, state, threads, current_profile,
                                             FALSE, start)
         IN  /\ state' = r.state
             /\ threads' = r.threads
             /\ out' = CallOut("handle_event_for_recording", event, r.action)
  /\ UNCHANGED <<conn, pc, current_profile, config, ledq, led, mr_led_write_time, hid,
                 clock, write_time, hist, report>>

(* ---------------------------------------------------------------------- *)
(* led_worker (led.rs)                                                    *)
(* ---------------------------------------------------------------------- *)
\* the steps of a command that the other threads can tell apart: the store of
\* the marker, the write of the MR report (and the sleep after it), the break
OpStore == [op |-> "store", on |-> FALSE, sleep |-> 0]
OpWriteMr(on, sleep) == [op |-> "write_mr", on |-> on, sleep |-> sleep]
OpBreak == [op |-> "break", on |-> FALSE, sleep |-> 0]
\* Shutdown's all_gkeys_led_command(0, 0, 0) and led_commit_command
OpWriteOff == [op |-> "write_off", on |-> FALSE, sleep |-> 0]

RECURSIVE QuickFlashOps(_)
\* a loop body that stores the marker once for its two writes
QuickFlashOps_one_store(count) ==
  IF count = 0 THEN <<>>
  ELSE <<OpStore, OpWriteMr(TRUE, MR_QUICK_FLASH_INTERVAL),
         OpWriteMr(FALSE, MR_QUICK_FLASH_INTERVAL)>> \o QuickFlashOps(count - 1)

\* QuickFlashMr's loop body, count times
QuickFlashOps(count) ==
  IF count = 0 THEN <<>>
  ELSE <<OpStore, OpWriteMr(TRUE, MR_QUICK_FLASH_INTERVAL),
         OpStore, OpWriteMr(FALSE, MR_QUICK_FLASH_INTERVAL)>> \o QuickFlashOps(count - 1)

\* what the arm of a command does to the marker and the MR indicator, in order
\* (the RGB and profile reports of an arm are written in LedRecv)
CommandOps(cmd) ==
  CASE cmd.cmd = "SetMrLed" -> <<OpStore, OpWriteMr(cmd.on, 0)>>
    [] cmd.cmd = "StartMrFlashing" -> <<OpStore, OpWriteMr(TRUE, 0)>>
    [] cmd.cmd = "StopMrFlashing" -> <<OpStore, OpWriteMr(FALSE, 0)>>
    [] cmd.cmd = "QuickFlashMr" -> QuickFlashOps(cmd.n)
    [] cmd.cmd = "Shutdown" -> <<OpStore, OpWriteMr(FALSE, 0), OpWriteOff, OpBreak>>
    [] OTHER -> <<>>

\* a QuickFlashMr arm that leaves flashing as it is
CommandFlags_quick_flash_keeps_flashing(w, cmd, now) ==
  CASE cmd.cmd = "StartMrFlashing" ->
         [w EXCEPT !.flashing = TRUE, !.flash_on = TRUE, !.last_flash = now]
    [] cmd.cmd \in {"StopMrFlashing", "Shutdown"} ->
         [w EXCEPT !.flashing = FALSE]
    [] OTHER -> w

\* the worker's flashing, flash_on and last_flash after the arm of a command
CommandFlags(w, cmd, now) ==
  CASE cmd.cmd = "StartMrFlashing" ->
         [w EXCEPT !.flashing = TRUE, !.flash_on = TRUE, !.last_flash = now]
    [] cmd.cmd \in {"StopMrFlashing", "QuickFlashMr", "Shutdown"} ->
         [w EXCEPT !.flashing = FALSE]
    [] OTHER -> w

\* mr_led_write_time.store(current_time_ms()): the marker, the worker (which
\* remembers what it stored) and the history after it
StoreMarker(w, now) ==
  [marker |-> now, led |-> [w EXCEPT !.stored = now, !.marked = TRUE]]

\* the report the device sends back for an MR report written to it, with the
\* marker stored for the write
EchoOfMr(on, stored) == [event |-> parse_report(mr_led_command(on)), stored |-> stored]

\* a SetGKeysRecording arm that leaves the commit out
ArmReports_recording_uncommitted(cmd) ==
  CASE cmd.cmd = "SetGKeysRecording" ->
         [g \in 1..5 |-> IF g = cmd.n THEN gkey_led_command(g, 255, 0, 0)
                                      ELSE gkey_led_command(g, 0, 0, 0)]
    [] OTHER -> <<all_gkeys_led_command(cmd.rgb[1], cmd.rgb[2], cmd.rgb[3]),
                  led_commit_command>>

\* the reports the arm of a command hands to write_report, in order
ArmReports(cmd) ==
  CASE cmd.cmd = "SetMrLed" -> <<mr_led_command(cmd.on)>>
    [] cmd.cmd = "SetProfileLed" -> <<led_command(cmd.n)>>
    [] cmd.cmd = "SetAllGKeysLed" ->
         <<all_gkeys_led_command(cmd.rgb[1], cmd.rgb[2], cmd.rgb[3]), led_commit_command>>
    [] cmd.cmd = "SetGKeysRecording" ->
         [g \in 1..5 |-> IF g = cmd.n THEN gkey_led_command(g, 255, 0, 0)
                                      ELSE gkey_led_command(g, 0, 0, 0)]
           \o <<led_commit_command>>
    [] cmd.cmd = "StartMrFlashing" -> <<mr_led_command(TRUE)>>
    [] cmd.cmd = "StopMrFlashing" -> <<mr_led_command(FALSE)>>
    [] cmd.cmd = "QuickFlashMr" -> [i \in 1..(2 * cmd.n) |-> mr_led_command(i % 2 = 1)]
    [] cmd.cmd = "TurnOffGKeys" -> <<all_gkeys_led_command(0, 0, 0), led_commit_command>>
    [] cmd.cmd = "SetFullKeyboardColor" ->
         direct_mode_init_commands
           \o full_keyboard_color_commands(cmd.rgb[1], cmd.rgb[2], cmd.rgb[3])
           \o <<led_commit_command>>
    [] cmd.cmd = "RestoreGKeysColor" ->
         <<IF cmd.rgb # <<>>
             THEN all_gkeys_led_command(cmd.rgb[1], cmd.rgb[2], cmd.rgb[3])
             ELSE all_gkeys_led_command(0, 0, 0),
           led_commit_command>>
    [] cmd.cmd = "Shutdown" ->
         <<mr_led_command(FALSE), all_gkeys_led_command(0, 0, 0), led_commit_command>>

\* the colour a report sets for G-key g, <<>> if it sets none: a 0x6c report
\* lists addresses up to its terminator, a 0x1f report names one address
ColourSet(r, g) ==
  IF r[3] = 16 /\ r[4] = 108
       /\ \E i \in 8..20 : r[i] = g + 179 /\ \A j \in 8..i : r[j] # 255
    THEN <<r[5], r[6], r[7]>>
  ELSE IF r[3] = 16 /\ r[4] = 31 /\ r[5] = g + 179 THEN <<r[6], r[7], r[8]>>
  ELSE <<>>

\* what the G-key LEDs show when the colours of set are committed
Shown(set) ==
  IF \A g \in 1..5 : set[g] = <<0, 0, 0>> THEN "off"
  ELSE IF \E s \in 1..5 : /\ set[s] = <<255, 0, 0>>
                           /\ \A g \in (1..5) \ {s} : set[g] = <<0, 0, 0>>
    THEN "selected"
  ELSE "color"

\* what the G-key LEDs show after the reports rs, given what they show: a colour
\* becomes visible with the commit that follows it, and each key shows the colour
\* set last before that commit
GKeysAfter(shown, rs) ==
  LET Sets(g, i) == {j \in 1..(i - 1) : ColourSet(rs[j], g) # <<>>}
      Last(S) == CHOOSE j \in S : \A k \in S : k <= j
      Commits == {i \in 1..Len(rs) : /\ rs[i][3] = 16 /\ rs[i][4] = 127
                                      /\ \A g \in 1..5 : Sets(g, i) # {}}
  IN  IF Commits = {} THEN shown
      ELSE Shown([g \in 1..5 |-> ColourSet(rs[Last(Sets(g, Last(Commits)))], g)])

\* what the G-key LEDs show after the colour reports and the commit of
\* Shutdown, whatever they showed
ShutdownGKeys == GKeysAfter("color", ArmReports(Shutdown))

\* the device after the reports of an arm that writes no MR report (gkeys: what
\* the G-key LEDs show after it); the device answers a led_command with the
\* report of the M key
WriteOther(h, cmd) ==
  CASE cmd.cmd = "SetProfileLed" ->
         [h EXCEPT !.echo = Append(@, [event |-> parse_report(led_command(cmd.n)),
                                       stored |-> 0])]
    [] OTHER ->
         [h EXCEPT !.gkeys = GKeysAfter(@, ArmReports(cmd))]

\* Drop for LedController that releases the sender without sending Shutdown
LedController_drop_no_shutdown(q) == [ledq |-> q, tx |-> FALSE]

\* Drop for LedController up to its join: the queue after its send, and the
\* sender, which is held until drop returns
LedController_drop(q) == [ledq |-> Append(q, Shutdown), tx |-> TRUE]

\* rx.recv_timeout: a command, Timeout, or Disconnected once the queue is empty
\* and the sender is gone
recv_timeout(q, tx) ==
  IF q # <<>> THEN "Ok" ELSE IF tx THEN "Timeout" ELSE "Disconnected"

\* the worker is in recv_timeout (not in the middle of an arm, not asleep)
LedWaiting == led.status = "running" /\ led.todo = <<>> /\ clock >= led.wake

\* recv_timeout returns Ok(cmd): the arm up to and including its first store;
\* oks: what write_report's write_all can come to (TRUE: Ok)
LedRecvWith(oks) ==
  /\ LedWaiting
  /\ recv_timeout(ledq, conn.tx) # "Timeout"
  /\ IF recv_timeout(ledq, conn.tx) = "Disconnected"
       THEN /\ led' = [led EXCEPT !.status = "exited"]
            /\ UNCHANGED <<ledq, hid, mr_led_write_time, hist>>
       ELSE /\ ledq' = Tail(ledq)
            /\ LET cmd == Head(ledq)
                   ops == CommandOps(cmd)
                   w == CommandFlags(led, cmd, clock)
               IN  IF ops = <<>>
                     THEN /\ led' = [w EXCEPT !.marked = FALSE]
                          /\ \E ok \in oks :
                               hid' = IF ok THEN WriteOther(hid, cmd) ELSE hid
                          /\ UNCHANGED <<mr_led_write_time, hist>>
                     ELSE /\ led' = [StoreMarker(w, clock).led EXCEPT !.todo = Tail(ops)]
                          /\ mr_led_write_time' = StoreMarker(w, clock).marker
                          /\ hist' = [hist EXCEPT !.stores = @ + 1, !.pending = TRUE]
                          /\ UNCHANGED hid
  /\ UNCHANGED <<conn, pc, current_profile, state, threads, config, clock, write_time,
                 out, reads, report>>

\* ... when every write succeeds
LedRecv == LedRecvWith({TRUE})

\* a toggle at every Timeout while flashing, whatever time has passed
LedTimeout_at_any_time ==
  /\ LedWaiting
  /\ recv_timeout(ledq, conn.tx) = "Timeout"
  /\ led.flashing
  /\ led' = [StoreMarker(led, clock).led EXCEPT
               !.flash_on = ~@, !.last_flash = clock,
               !.todo = <<OpWriteMr(~led.flash_on, 0)>>]
  /\ mr_led_write_time' = StoreMarker(led, clock).marker
  /\ hist' = [hist EXCEPT !.stores = @ + 1, !.pending = TRUE]
  /\ UNCHANGED <<conn, pc, current_profile, state, threads, config, ledq, hid, clock,
                 write_time, out, reads, report>>

\* recv_timeout returns Timeout while flashing: the toggle and its store
LedTimeout ==
  /\ LedWaiting
  /\ recv_timeout(ledq, conn.tx) = "Timeout"
  /\ led.flashing
  /\ clock - led.last_flash >= MR_FLASH_INTERVAL
  /\ led' = [StoreMarker(led, clock).led EXCEPT
               !.flash_on = ~@, !.last_flash = clock,
               !.todo = <<OpWriteMr(~led.flash_on, 0)>>]
  /\ mr_led_write_time' = StoreMarker(led, clock).marker
  /\ hist' = [hist EXCEPT !.stores = @ + 1, !.pending = TRUE]
  /\ UNCHANGED <<conn, pc, current_profile, state, threads, config, ledq, hid, clock,
                 write_time, out, reads, report>>

\* a worker that returns when a write of an MR report fails
LedOpWith_failure_ends(oks) ==
  /\ led.status = "running"
  /\ led.todo # <<>>
  /\ clock >= led.wake
  /\ Head(led.todo).op = "write_mr"
  /\ \E ok \in oks :
       /\ hid' = IF ok THEN [hid EXCEPT !.mr = Head(led.todo).on,
                                        !.echo = Append(@, EchoOfMr(Head(led.todo).on,
                                                                    led.stored))]
                     ELSE hid
       /\ led' = IF ok THEN [led EXCEPT !.todo = Tail(@), !.marked = FALSE,
                                        !.wake = clock + Head(led.todo).sleep]
                     ELSE [led EXCEPT !.todo = <<>>, !.status = "exited"]
  /\ UNCHANGED <<conn, pc, current_profile, state, threads, config, ledq, clock,
                 write_time, out, reads, report, mr_led_write_time, hist>>

\* the next step of the arm the worker is in; oks: what write_report's
\* write_all can come to (TRUE: Ok)
LedOpWith(oks) ==
  /\ led.status = "running"
  /\ led.todo # <<>>
  /\ clock >= led.wake
  /\ LET o == Head(led.todo)
     IN  CASE o.op = "store" ->
                /\ mr_led_write_time' = StoreMarker(led, clock).marker
                /\ led' = [StoreMarker(led, clock).led EXCEPT !.todo = Tail(@)]
                /\ hist' = [hist EXCEPT !.stores = @ + 1, !.pending = TRUE]
                /\ UNCHANGED hid
           [] o.op = "write_mr" ->
                /\ \E ok \in oks :
                     hid' = IF ok
                              THEN [hid EXCEPT !.mr = o.on,
                                               !.echo = Append(@, EchoOfMr(o.on,
                                                                           led.stored))]
                              ELSE hid
                /\ led' = [led EXCEPT !.todo = Tail(@), !.wake = clock + o.sleep,
                                      !.marked = FALSE]
                /\ UNCHANGED <<mr_led_write_time, hist>>
           [] o.op = "write_off" ->
                /\ \E ok \in oks :
                     hid' = IF ok
                              THEN [hid EXCEPT !.gkeys = ShutdownGKeys]
                              ELSE hid
                /\ led' = [led EXCEPT !.todo = Tail(@), !.marked = FALSE]
                /\ UNCHANGED <<mr_led_write_time, hist>>
           [] o.op = "break" ->
                /\ led' = [led EXCEPT !.todo = <<>>, !.status = "exited"]
                /\ UNCHANGED <<hid, mr_led_write_time, hist>>
  /\ UNCHANGED <<conn, pc, current_profile, state, threads, config, ledq, clock,
                 write_time, out, reads, report>>

\* ... when every write succeeds
LedOp == LedOpWith({TRUE})

(* ---------------------------------------------------------------------- *)
(* main: the outer loop (reconnection) and the way out                    *)
(* ---------------------------------------------------------------------- *)
\* reconnect_delay before the first failure, in s
INITIAL_RECONNECT_DELAY == 1
\* max_reconnect_delay, in s
MAX_RECONNECT_DELAY == 30

\* main's locals in the inner loop of the first connection. tx: led_controller
\* is Some and holds its sender; fresh: LedController::new has spawned a worker
\* whose controller is not yet assigned to led_controller; slept: the delay of
\* the last sleep since the last open that succeeded (0: none); fails: the
\* opens that have failed since then; led_failed: LedController::new has
\* failed since then
Connected ==
  [running |-> TRUE, reconnect_delay |-> INITIAL_RECONNECT_DELAY, tx |-> TRUE,
   fresh |-> FALSE, slept |-> 0, fails |-> 0, led_failed |-> FALSE]

\* led_worker's locals at the top of its loop, before its first command
NewLedWorker ==
  [status |-> "running", flashing |-> FALSE, flash_on |-> FALSE,
   last_flash |-> clock, todo |-> <<>>, wake |-> 0, stored |-> 0, marked |-> FALSE]

\* reconnect_delay after a sleep that doubles without the cap
next_reconnect_delay_uncapped(delay) == delay * 2

\* (reconnect_delay * 2).min(max_reconnect_delay)
next_reconnect_delay(delay) ==
  IF delay * 2 < MAX_RECONNECT_DELAY THEN delay * 2 ELSE MAX_RECONNECT_DELAY

\* the number of the profile the daemon starts with, whatever the profile
profile_num_first(profile) == 1

\* current_profile.strip_prefix("MEMORY_").and_then(parse).unwrap_or(1)
profile_num(profile) ==
  IF \E n \in MKeys : ProfileName(n) = profile
    THEN CHOOSE n \in MKeys : ProfileName(n) = profile
    ELSE 1

\* the handler of line 61: a signal clears running
Signal ==
  /\ conn.running
  /\ pc # "done"
  /\ conn' = [conn EXCEPT !.running = FALSE]
  /\ UNCHANGED <<pc, current_profile, state, threads, config, ledq, led,
                 mr_led_write_time, hid, clock, write_time, out, reads, hist, report>>

\* read_event returns Err: break to the outer loop while running, else back
\* to the top of the inner loop (lines 148-154)
ReadError ==
  /\ pc = "read"
  /\ reads < MaxReads
  /\ reads' = reads + 1
  /\ pc' = IF conn.running THEN "open" ELSE "top"
  /\ out' = Out("main", NoEvent, 0, FALSE, ActNone, <<>>, "", {})
  /\ UNCHANGED <<current_profile, state, threads, config, ledq, led, mr_led_write_time,
                 hid, clock, write_time, conn, hist, report>>

\* Device::open fails: sleep(reconnect_delay), double it, continue (lines 77-82)
OpenFail ==
  /\ pc = "open"
  /\ conn.running
  /\ conn.fails < MaxFails
  /\ conn' = [conn EXCEPT !.slept = conn.reconnect_delay,
                          !.reconnect_delay = next_reconnect_delay(@),
                          !.fails = @ + 1]
  /\ UNCHANGED <<pc, current_profile, state, threads, config, ledq, led,
                 mr_led_write_time, hid, clock, write_time, out, reads, hist, report>>

\* Device::open succeeds: the delay is reset (lines 72-76); the new handle has
\* none of the reports the old one had not read
OpenOk ==
  /\ pc = "open"
  /\ conn.running
  /\ pc' = "new_led"
  /\ conn' = [conn EXCEPT !.reconnect_delay = INITIAL_RECONNECT_DELAY, !.slept = 0,
                          !.fails = 0, !.led_failed = FALSE]
  /\ hid' = [hid EXCEPT !.echo = <<>>]
  /\ UNCHANGED <<current_profile, state, threads, config, ledq, led, mr_led_write_time,
                 clock, write_time, out, reads, hist, report>>

\* LedController::new fails: sleep(reconnect_delay), double it, continue (lines 88-93)
LedNewFail ==
  /\ pc = "new_led"
  /\ pc' = "open"
  /\ conn' = [conn EXCEPT !.slept = conn.reconnect_delay,
                          !.reconnect_delay = next_reconnect_delay(@),
                          !.led_failed = TRUE]
  /\ UNCHANGED <<current_profile, state, threads, config, ledq, led, mr_led_write_time,
                 hid, clock, write_time, out, reads, hist, report>>

\* LedController::new succeeds (line 86: the new worker is spawned) and line 95
\* assigns it to led_controller, which drops the controller it held: main is
\* in Drop's join from here on
LedNewOk ==
  /\ pc = "new_led"
  /\ pc' = "drop_old"
  /\ ledq' = LedController_drop(ledq).ledq
  /\ conn' = [conn EXCEPT !.fresh = TRUE, !.tx = LedController_drop(ledq).tx]
  /\ UNCHANGED <<current_profile, state, threads, config, led, mr_led_write_time, hid,
                 clock, write_time, out, reads, hist, report>>

\* the join of line 95's drop returns: led_controller is the new controller,
\* with its own marker and queue, and line 103 sends it the profile
Reconnected ==
  /\ pc = "drop_old"
  /\ led.status = "exited"
  /\ pc' = "top"
  /\ led' = NewLedWorker
  /\ ledq' = <<SetProfileLed(profile_num(current_profile))>>
  /\ mr_led_write_time' = 0
  /\ conn' = [conn EXCEPT !.fresh = FALSE, !.tx = TRUE]
  /\ UNCHANGED <<current_profile, state, threads, config, hid, clock, write_time, out,
                 reads, hist, report>>

\* running is found false at line 69 or line 109: main returns, and its locals
\* are dropped in the reverse order of their declaration: led_controller
\* first (main is in Drop's join from here on)
Return ==
  /\ pc \in {"top", "open"}
  /\ ~conn.running
  /\ pc' = "drop_exit"
  /\ ledq' = LedController_drop(ledq).ledq
  /\ conn' = [conn EXCEPT !.tx = LedController_drop(ledq).tx]
  /\ UNCHANGED <<current_profile, state, threads, config, led, mr_led_write_time, hid,
                 clock, write_time, out, reads, hist, report>>

\* the join returns, the sender is released, the recorder is dropped (the
\* receiver, the flag and the JoinHandle of a recording with it; Recorder
\* has no Drop) and the process ends
Exit ==
  /\ pc = "drop_exit"
  /\ led.status = "exited"
  /\ pc' = "done"
  /\ conn' = [conn EXCEPT !.tx = FALSE]
  /\ threads' = IF is_recording(state)
                  THEN [threads EXCEPT ![state.thread].rx = FALSE,
                                       ![state.thread].queue = <<>>]
                  ELSE threads
  /\ UNCHANGED <<current_profile, state, config, ledq, led, mr_led_write_time, hid,
                 clock, write_time, out, reads, hist, report>>

(* ---------------------------------------------------------------------- *)
(* Time                                                                   *)
(* ---------------------------------------------------------------------- *)
\* the clock's value in the initial state (ms since the epoch)
StartTime == 1000

\* the steps the clock advances by
TickSteps == {10}

Tick ==
  /\ \E d \in TickSteps : clock + d <= StartTime + MaxTime /\ clock' = clock + d
  /\ UNCHANGED <<conn, pc, current_profile, state, threads, config, ledq, led,
                 mr_led_write_time, hid, write_time, out, reads, hist, report>>

\* the LED thread sleeps or waits for its flash interval and nothing else
\* happens until it wakes up
LedTimer ==
  IF led.status # "running" THEN 0
  ELSE IF led.todo # <<>> \/ clock < led.wake THEN led.wake
  ELSE IF led.flashing /\ ledq = <<>> THEN led.last_flash + MR_FLASH_INTERVAL
  ELSE 0

TimerTick ==
  /\ LedTimer > clock
  /\ LedTimer <= StartTime + MaxTimer
  /\ clock' = LedTimer
  /\ UNCHANGED <<conn, pc, current_profile, state, threads, config, ledq, led,
                 mr_led_write_time, hid, write_time, out, reads, hist, report>>

(* ---------------------------------------------------------------------- *)
(* The system                                                             *)
(* ---------------------------------------------------------------------- *)
InitConfig ==
  [notify |-> TRUE,
   profiles |-> ("MEMORY_1" :> ("MACRO_1" :> Macro("Shortcut", "ctrl+c")))]

\* main up to the inner loop, with the device found at the first attempt
Init ==
  /\ pc = "top"
  /\ current_profile = "MEMORY_1"
  /\ state = Idle
  /\ threads = [t \in 1..MaxThreads |-> NoThread]
  /\ config = InitConfig
  /\ ledq = <<SetProfileLed(1)>>
  /\ led = [status |-> "running", flashing |-> FALSE, flash_on |-> FALSE,
            last_flash |-> StartTime, todo |-> <<>>, wake |-> 0, stored |-> 0, marked |-> FALSE]
  /\ mr_led_write_time = 0
  /\ hid = [mr |-> FALSE, gkeys |-> "off", echo |-> <<>>]
  /\ clock = StartTime
  /\ write_time = 0
  /\ out = Out("main", NoEvent, 0, FALSE, ActNone, <<>>, "", {})
  /\ reads = 0
  /\ report = <<>>
  /\ conn = Connected
  /\ hist = [stores |-> 0, selfs |-> 0, pending |-> FALSE, taken |-> 0, seen |-> 0,
             lost |-> 0]

\* the recorder, the capture threads and the event loop, while the LED thread
\* has not yet received a command
Next ==
  \/ LoopTop
  \/ ReadUser(Events)
  \/ ReadNone
  \/ \E t \in 1..MaxThreads : CaptureStop(t)
  \/ \E t \in 1..MaxThreads : CaptureKey(t)

Spec == Init /\ [][Next]_vars

\* the keys the user presses in SpecLed
LedUserEvents == {MRKey, GKey(3)}

\* the LED thread, the marker, the clock and the event loop, while the capture
\* threads fetch no key event
NextLed ==
  \/ LoopTop
  \/ ReadUser(LedUserEvents)
  \/ ReadEcho
  \/ Classify
  \/ LedRecv
  \/ LedOp
  \/ LedTimeout
  \/ Tick
  \/ TimerTick

\* ... from the state in which the LED thread has written the profile report
\* of line 103 and the event loop has read what the device sent back for it
InitLed ==
  /\ pc = "top"
  /\ current_profile = "MEMORY_1"
  /\ state = Idle
  /\ threads = [t \in 1..MaxThreads |-> NoThread]
  /\ config = InitConfig
  /\ ledq = <<>>
  /\ led = [status |-> "running", flashing |-> FALSE, flash_on |-> FALSE,
            last_flash |-> StartTime, todo |-> <<>>, wake |-> 0, stored |-> 0, marked |-> FALSE]
  /\ mr_led_write_time = 0
  /\ hid = [mr |-> FALSE, gkeys |-> "off", echo |-> <<>>]
  /\ clock = StartTime
  /\ write_time = 0
  /\ out = Out("main", MKey(1), 0, FALSE, ActNone, <<>>, "", {})
  /\ reads = 0
  /\ report = <<>>
  /\ conn = Connected
  /\ hist = [stores |-> 0, selfs |-> 0, pending |-> FALSE, taken |-> 0, seen |-> 0,
             lost |-> 0]

SpecLed == InitLed /\ [][NextLed]_vars

\* the keys the user presses in SpecCapture
CaptureUserEvents == {MRKey, GKey(1)}

\* the report read is an MR or G1 press
ReadPress ==
  /\ \E event \in CaptureUserEvents : ReadEventUpTo(event, 0, MaxPresses)
  /\ UNCHANGED hid

\* recordings started and stopped one after another, with their capture threads
NextCapture ==
  \/ LoopTop
  \/ ReadPress
  \/ \E t \in 1..MaxThreads : CaptureStop(t)
  \/ \E t \in 1..MaxThreads : CaptureKey(t)

SpecCapture == Init /\ [][NextCapture]_vars

\* the keys fetched in SpecReplay: a modifier, a letter and two keys of the
\* keypad block
ReplayKeys == {"KEY_LEFTSHIFT", "KEY_A", "KEY_KP1", "KEY_PAUSE"}

\* a macro is recorded from the keys of ReplayKeys and then run by a press of
\* its G-key
NextReplay ==
  \/ LoopTop
  \/ ReadPress
  \/ \E t \in 1..MaxThreads : CaptureKeyFrom(t, ReplayKeys, KeyValues)

SpecReplay == Init /\ [][NextReplay]_vars

\* the letters a..z and A..Z
Letters ==
  {CharAt(LowercaseLetters, i) : i \in 1..26} \cup {CharAt(UppercaseLetters, i) : i \in 1..26}

\* main in the inner loop of the first connection, with a config whose macro
\* of G1 types a letter
InitTypeout ==
  /\ pc = "top"
  /\ current_profile = "MEMORY_1"
  /\ state = Idle
  /\ threads = [t \in 1..MaxThreads |-> NoThread]
  /\ \E text \in Letters :
       config = [notify |-> TRUE,
                 profiles |-> ("MEMORY_1" :> ("MACRO_1" :> Macro("Typeout", text)))]
  /\ ledq = <<SetProfileLed(1)>>
  /\ led = [status |-> "running", flashing |-> FALSE, flash_on |-> FALSE,
            last_flash |-> StartTime, todo |-> <<>>, wake |-> 0, stored |-> 0, marked |-> FALSE]
  /\ mr_led_write_time = 0
  /\ hid = [mr |-> FALSE, gkeys |-> "off", echo |-> <<>>]
  /\ clock = StartTime
  /\ write_time = 0
  /\ out = Out("main", NoEvent, 0, FALSE, ActNone, <<>>, "", {})
  /\ reads = 0
  /\ report = <<>>
  /\ conn = Connected
  /\ hist = [stores |-> 0, selfs |-> 0, pending |-> FALSE, taken |-> 0, seen |-> 0,
             lost |-> 0]

\* the G-keys are pressed and released while the recorder is idle
NextTypeout ==
  \/ LoopTop
  \/ ReadUser({GKey(1), GKey(2), GKeyRelease})

SpecTypeout == InitTypeout /\ [][NextTypeout]_vars

\* SpecCapture with the reads that time out; main goes on with its loop and a
\* read_event without a report returns after its 100 ms
NextPoll ==
  \/ NextCapture
  \/ ReadTimeout

SpecPoll ==
  Init /\ [][NextPoll]_vars /\ WF_vars(LoopTop) /\ WF_vars(ReadTimeout)

\* the keys the user presses in SpecConn
ConnUserEvents == {MRKey, GKey(1), MKey(2)}

\* the connection's life: read errors, reconnection with its backoff, the
\* signal and the way out, with the LED thread and the capture threads
NextConn ==
  \/ LoopTop
  \/ ReadUser(ConnUserEvents)
  \/ ReadError
  \/ Classify
  \/ Signal
  \/ OpenFail
  \/ OpenOk
  \/ LedNewFail
  \/ LedNewOk
  \/ Reconnected
  \/ Return
  \/ Exit
  \/ LedRecv
  \/ LedOp
  \/ LedTimeout
  \/ TimerTick
  \/ \E t \in 1..MaxThreads : CaptureStop(t)

SpecConn == Init /\ [][NextConn]_vars

\* MR and G1 presses, recordings of presses of one key that are saved, read
\* errors and reconnections that succeed, with the LED thread
NextIndicator ==
  \/ LoopTop
  \/ ReadUser(CaptureUserEvents)
  \/ ReadError
  \/ Classify
  \/ OpenOk
  \/ LedNewOk
  \/ Reconnected
  \/ LedRecv
  \/ LedOp
  \/ LedTimeout
  \/ TimerTick
  \/ \E t \in 1..MaxThreads : CaptureKeyFrom(t, {"KEY_A"}, {1})

SpecIndicator == Init /\ [][NextIndicator]_vars

\* the keys the user presses in SpecProfile
ProfileUserEvents == {MKey(n) : n \in MKeys}

\* profile keys, the profile reports the LED thread writes and what the device
\* sends back for them
NextProfile ==
  \/ LoopTop
  \/ ReadUser(ProfileUserEvents)
  \/ ReadEcho
  \/ LedRecv

SpecProfile == Init /\ [][NextProfile]_vars

\* the commands the methods of LedController send (they are pub)
LedCommands ==
  {SetMrLed(TRUE), SetMrLed(FALSE), SetProfileLed(2), SetAllGKeysLed(255, 255, 255),
   SetGKeysRecording(1), StartMrFlashing, StopMrFlashing,
   QuickFlashMr(MR_QUICK_FLASH_COUNT), TurnOffGKeys, SetFullKeyboardColor(0, 0, 255),
   RestoreGKeysColor(<<>>), RestoreGKeysColor(<<0, 255, 0>>), Shutdown}

\* the reports the LED thread writes for the commands of SpecLedWorker, for
\* the profiles and for the G-keys
WrittenReports ==
  LET cmds == LedCommands \cup {SetProfileLed(n) : n \in MKeys}
                \cup {SetGKeysRecording(g) : g \in GKeys}
  IN  UNION {{ArmReports(c)[i] : i \in 1..Len(ArmReports(c))} : c \in cmds}

\* the reports read in SpecDecode: every mask under right and wrong prefixes
\* and known and unknown families (5 bytes, and the 20 bytes hidraw delivers),
\* what a short read leaves of them, and the reports the LED thread writes
Reports ==
  LET heads == {<<a, b, f, 0, m>> : a \in {16, 17}, b \in {254, 255}, f \in 9..13,
                                    m \in 0..255}
      full == {h \o [i \in 1..15 |-> 0] : h \in {g \in heads : g[5] \in 0..32}}
      short == {SubSeq(h, 1, n) : h \in {g \in heads : g[5] = 1}, n \in 0..4}
  IN  heads \cup full \cup short \cup WrittenReports

\* main in the inner loop of the first connection, with the report the device
\* holds for its first read
InitDecode ==
  /\ pc = "top"
  /\ current_profile = "MEMORY_1"
  /\ state = Idle
  /\ threads = [t \in 1..MaxThreads |-> NoThread]
  /\ config = InitConfig
  /\ ledq = <<SetProfileLed(1)>>
  /\ led = [status |-> "running", flashing |-> FALSE, flash_on |-> FALSE,
            last_flash |-> StartTime, todo |-> <<>>, wake |-> 0, stored |-> 0, marked |-> FALSE]
  /\ mr_led_write_time = 0
  /\ hid = [mr |-> FALSE, gkeys |-> "off", echo |-> <<>>]
  /\ clock = StartTime
  /\ write_time = 0
  /\ out = Out("main", NoEvent, 0, FALSE, ActNone, <<>>, "", {})
  /\ reads = 0
  /\ report \in Reports
  /\ conn = Connected
  /\ hist = [stores |-> 0, selfs |-> 0, pending |-> FALSE, taken |-> 0, seen |-> 0,
             lost |-> 0]

\* main, lines 120-147: the first read yields the report, and what it decodes
\* to is dispatched
ReadReport ==
  /\ reads = 0
  /\ IF read_event_blocking(report) = NoEvent
       THEN ReadNone
       ELSE ReadEvent(read_event_blocking(report), 0) /\ UNCHANGED hid

NextDecode ==
  \/ LoopTop
  \/ ReadReport

SpecDecode == InitDecode /\ [][NextDecode]_vars

\* ... with the sends that fail, and every capture thread going on with its
\* loop: fetch_events returns (events, or an error such as EAGAIN followed by
\* a sleep of 10 ms), so a thread whose flag is set comes to its check
NextCaptureFair ==
  \/ NextCapture
  \/ \E t \in 1..MaxThreads : CaptureSendFails(t)

SpecCaptureFair ==
  /\ Init
  /\ [][NextCaptureFair]_vars
  /\ \A t \in 1..MaxThreads : WF_vars(CaptureStop(t))

\* the capture threads with the fetches that return an error and the sends
\* that fail, each press fetched being one of the key A
NextCaptureErr ==
  \/ LoopTop
  \/ ReadPress
  \/ \E t \in 1..MaxThreads : CaptureStop(t)
  \/ \E t \in 1..MaxThreads : CaptureKeyFrom(t, {"KEY_A"}, {1})
  \/ \E t \in 1..MaxThreads : CaptureSendFails(t)
  \/ \E t \in 1..MaxThreads : CaptureFetchErr(t)

SpecCaptureErr == Init /\ [][NextCaptureErr]_vars

\* LedController::send: a caller sends one of the commands given (reads counts
\* the sends)
SendCommandFrom(cmds) ==
  /\ reads < MaxCommands
  /\ reads' = reads + 1
  /\ \E cmd \in cmds : ledq' = Append(ledq, cmd)
  /\ UNCHANGED <<pc, current_profile, state, threads, config, led, mr_led_write_time,
                 hid, clock, write_time, out, report, conn, hist>>

\* LedController::send of any command
SendCommand == SendCommandFrom(LedCommands)

\* the LED thread under any caller, and the clock
NextLedWorker ==
  \/ SendCommand
  \/ LedRecv
  \/ LedOp
  \/ LedTimeout
  \/ TimerTick

SpecLedWorker == InitLed /\ [][NextLedWorker]_vars

\* commands of each kind of arm: MR reports and flashing, RGB reports, the way out
WriteCommands == {StartMrFlashing, SetGKeysRecording(1), QuickFlashMr(1), Shutdown}

\* the LED thread with writes that fail
NextLedWrites ==
  \/ SendCommandFrom(WriteCommands)
  \/ LedRecvWith(BOOLEAN)
  \/ LedOpWith(BOOLEAN)
  \/ LedTimeout
  \/ TimerTick

SpecLedWrites == InitLed /\ [][NextLedWrites]_vars

\* the commands whose arms assign flashing, and two that leave it alone
FlashWorkerCommands ==
  {StartMrFlashing, StopMrFlashing, QuickFlashMr(1), Shutdown, SetMrLed(FALSE),
   SetGKeysRecording(1)}

NextLedFlash ==
  \/ SendCommandFrom(FlashWorkerCommands)
  \/ LedRecv
  \/ LedOp
  \/ LedTimeout
  \/ TimerTick

\* the worker with its commands, a worker that goes on and a clock that does:
\* recv_timeout returns when its timeout is over
SpecLedWorkerFair ==
  /\ InitLed /\ [][NextLedFlash]_vars
  /\ WF_vars(LedTimeout) /\ WF_vars(LedOp) /\ WF_vars(TimerTick)

\* the recorder under any caller, and the capture threads
NextRecorder ==
  \/ CallMrPress
  \/ CallGKeyPress
  \/ CallPoll
  \/ CallHandleEvent
  \/ \E t \in 1..MaxThreads : CaptureStop(t)
  \/ \E t \in 1..MaxThreads : CaptureKey(t)

SpecRecorder == Init /\ [][NextRecorder]_vars

(* ---------------------------------------------------------------------- *)
(* Steps of the program the properties speak about                        *)
(* ---------------------------------------------------------------------- *)
\* main, lines 126-146: this step ends the pass of the event loop that read event
EventHandled(event) ==
  /\ pc \in {"read", "classify"}
  /\ pc' = "top"
  /\ out'.call = "main"
  /\ out'.event = event

\* ... an MRKey that is_mr_event_from_led did not claim: on_mr_press is called
GenuineMrPress == EventHandled(MRKey) /\ ~out'.from_led

\* start_capture_thread spawned a thread in this step
CaptureStarted ==
  \E t \in 1..MaxThreads : threads[t].status = "none" /\ threads'[t].status = "running"

\* this step is a call of the recorder made by SpecRecorder
RecorderCalled(call) == reads' = reads + 1 /\ out'.call = call

\* this step is the load of is_mr_event_from_led finding no marker
MarkerFoundEmpty ==
  /\ pc = "read"
  /\ reads' = reads + 1
  /\ out'.event = MRKey
  /\ mr_led_write_time = 0

\* this step is the rest of is_mr_event_from_led after it loaded a marker
MarkerJudged == pc = "classify" /\ pc' = "top"

(* ---------------------------------------------------------------------- *)
(* The recorder's transitions                                             *)
(* ---------------------------------------------------------------------- *)
\* C1: an MRKey that is not an echo, handled while the recorder is Idle, leaves
\* the recorder in AwaitingGKey with the profile that is current in main, and
\* the action is EnterAwaiting.
C1_IdleMrPressEntersAwaiting ==
  [][(state.tag = "Idle" /\ GenuineMrPress)
       => /\ state' = AwaitingGKey(current_profile)
          /\ out'.action = EnterAwaiting
          /\ current_profile' = current_profile]_vars

\* the recorder awaits a G-key for the third profile after an MRKey
C1_Witness ==
  /\ pc = "top"
  /\ out.event = MRKey
  /\ ~out.from_led
  /\ out.action = EnterAwaiting
  /\ current_profile = "MEMORY_3"
  /\ state = AwaitingGKey("MEMORY_3")

\* C2: for every g of 1..5, a GKey(g) handled in AwaitingGKey with profile p
\* whose capture thread is started leaves the recorder in Recording with
\* profile p, gkey g and no captured keys, owning the thread just started, and
\* the action is StartedRecording(g).
C2_GKeyPressStartsRecording ==
  [][\A g \in GKeys :
       (state.tag = "AwaitingGKey" /\ EventHandled(GKey(g)) /\ CaptureStarted)
         => /\ out'.action = StartedRecording(g)
            /\ \E t \in 1..MaxThreads :
                 /\ state' = Recording(state.profile, g, <<>>, t)
                 /\ threads[t] = NoThread
                 /\ threads'[t] = NewThread]_vars

\* recording of G5 for the second profile has just started
C2_Witness ==
  /\ pc = "top"
  /\ out.event = GKey(5)
  /\ out.action = StartedRecording(5)
  /\ state.tag = "Recording"
  /\ state.profile = "MEMORY_2"
  /\ state.gkey = 5
  /\ state.captured_keys = <<>>
  /\ threads[state.thread].status = "running"

\* the chords in their order with ", " between them, built from the last one
RECURSIVE ChordsInOrder(_)
ChordsInOrder(keys) ==
  IF keys = <<>> THEN ""
  ELSE IF Len(keys) = 1 THEN keys[1]
  ELSE ChordsInOrder(SubSeq(keys, 1, Len(keys) - 1)) \o ", " \o keys[Len(keys)]

\* C3: an MRKey that is not an echo, handled in Recording with profile p and
\* gkey g, leaves the recorder Idle; with the chords polled so far followed by
\* those still in the channel, the action is SaveMacro(p, g, these chords in
\* order joined by ", ") if there is one and CancelledEmpty if there is none;
\* no SaveMacro carries the empty sequence.
C3_RecordingMrPressSaves ==
  [][/\ (state.tag = "Recording" /\ GenuineMrPress)
          => LET chords == state.captured_keys \o threads[state.thread].queue
             IN  /\ state' = Idle
                 /\ out'.action =
                      IF chords = <<>>
                        THEN CancelledEmpty
                        ELSE SaveMacro(state.profile, state.gkey, ChordsInOrder(chords))
     /\ out'.action.tag = "SaveMacro" => out'.action.text # ""]_vars

\* two chords were saved for G3 of the second profile
C3_Witness ==
  /\ pc = "top"
  /\ state = Idle
  /\ out.event = MRKey
  /\ out.action = SaveMacro("MEMORY_2", 3, "ctrl+a, a")
  /\ get_macro(config, "MEMORY_2", "MACRO_3") = {Macro("Sequence", "ctrl+a, a")}

\* C4: an MRKey that is not an echo, handled in AwaitingGKey, leaves the
\* recorder Idle with the action CancelledNoGKey; no capture thread is started
\* and the config is not written.
C4_AwaitingMrPressCancels ==
  [][(state.tag = "AwaitingGKey" /\ GenuineMrPress)
       => /\ state' = Idle
          /\ out'.action = CancelledNoGKey
          /\ ~CaptureStarted
          /\ threads' = threads
          /\ config' = config]_vars

\* the selection of a G-key was cancelled by a second MRKey
C4_Witness ==
  /\ pc = "top"
  /\ state = Idle
  /\ out.event = MRKey
  /\ ~out.from_led
  /\ out.action = CancelledNoGKey
  /\ out.sent = <<SetMrLed(FALSE), TurnOffGKeys>>
  /\ \A t \in 1..MaxThreads : threads[t] = NoThread

\* the calls and events the transition table has no row for
NotInTable(call, event, st) ==
  \/ call = "on_gkey_press" /\ st.tag \in {"Idle", "Recording"}
  \/ call = "poll_captured_keys" /\ st.tag \in {"Idle", "AwaitingGKey"}
  \/ /\ call = "handle_event_for_recording"
     /\ \/ event \in {GKeyRelease, MKeyRelease, MRKeyRelease}
        \/ event.tag = "MKey"
        \/ event.tag = "GKey" /\ st.tag \in {"Idle", "Recording"}

\* C5: on_gkey_press in Idle or Recording, poll_captured_keys in Idle or
\* AwaitingGKey, and handle_event_for_recording with a release, with an MKey or
\* with a GKey outside AwaitingGKey leave the recorder's state (variant,
\* profile, gkey, captured keys) as it was, and the action is None.
C5_OtherPairsChangeNothing ==
  [][\A call \in {"on_gkey_press", "poll_captured_keys", "handle_event_for_recording"} :
       (RecorderCalled(call) /\ NotInTable(call, out'.event, state))
         => /\ state' = state
            /\ threads' = threads
            /\ out'.action = ActNone]_vars

\* on_gkey_press was called while Recording with a chord captured
C5_Witness ==
  /\ out.call = "on_gkey_press"
  /\ out.event = GKey(2)
  /\ out.action = ActNone
  /\ state.tag = "Recording"
  /\ state.gkey = 4
  /\ state.captured_keys = <<"ctrl+a">>

C7_EchoInWindowIsFromLed ==
  [][(/\ EventHandled(MRKey)
      /\ out'.stored # 0
      /\ clock - out'.stored < MR_LED_DEBOUNCE_MS
      /\ hist'.taken = 0
      /\ hist'.lost = 0)
       => out'.from_led]_vars

\* C8: the answers true never outnumber the MR writes (counted from the store
\* each of them begins with), and an answer true is given only when a store
\* was made less than 30 ms before and no answer true was given since a store.
C8_SelfWritesBounded ==
  [][/\ hist'.selfs <= hist'.stores
     /\ (EventHandled(MRKey) /\ out'.from_led)
          => /\ pc = "classify"
             /\ write_time >= StartTime
             /\ write_time <= led.stored
             /\ clock - write_time < MR_LED_DEBOUNCE_MS
             /\ hist.pending
             /\ hist.stores > hist.selfs]_vars

\* every store made so far has been answered true once
C8_Witness ==
  /\ pc = "top"
  /\ out.event = MRKey
  /\ out.from_led
  /\ hist.stores = 2
  /\ hist.selfs = 2

\* C9: when is_mr_event_from_led has loaded the marker the last write stored
\* and judges it inside the window, it answers true and stores 0; from then on
\* until the next store it finds no marker and answers false.
C9_TrueOnceThenFalse ==
  [][/\ (MarkerJudged /\ clock - write_time < MR_LED_DEBOUNCE_MS)
          => /\ out'.from_led
             /\ mr_led_write_time' = 0
             /\ ~hist'.pending
     /\ ~hist.pending => mr_led_write_time = 0
     /\ (MarkerFoundEmpty /\ ~hist.pending)
          => /\ pc' = "top"
             /\ ~out'.from_led
             /\ mr_led_write_time' = 0]_vars

\* one store, one answer true, and a further MRKey inside the window of that
\* store was answered false
C9_Witness ==
  /\ pc = "top"
  /\ out.event = MRKey
  /\ ~out.from_led
  /\ hist.stores = 1
  /\ hist.selfs = 1
  /\ ~hist.pending
  /\ clock - led.stored = 10

\* C10: is_mr_event_from_led answers false when it loads 0, and when the clock
\* is 30 ms or more past the marker it loaded; then it leaves the marker as it
\* is. It answers true exactly when the marker loaded is less than 30 ms old.
C10_FalseOutsideWindow ==
  [][/\ MarkerFoundEmpty
          => /\ pc' = "top"
             /\ ~out'.from_led
             /\ mr_led_write_time' = 0
     /\ MarkerJudged
          => /\ out'.from_led <=> clock - write_time < MR_LED_DEBOUNCE_MS
             /\ clock - write_time >= MR_LED_DEBOUNCE_MS
                  => mr_led_write_time' = mr_led_write_time]_vars

\* an MRKey 50 ms after the only store was answered false and the marker is
\* still there
C10_Witness ==
  /\ pc = "top"
  /\ out.event = MRKey
  /\ ~out.from_led
  /\ hist.stores = 1
  /\ hist.selfs = 0
  /\ mr_led_write_time = led.stored
  /\ out.age = 50

\* C11: an MRKey that is_mr_event_from_led answers true for reaches neither
\* the recorder nor handle_event's profile or macro code: in every state of the
\* recorder the recording state, the capture threads, current_profile and
\* config stay as they are, no action is executed, no LED command is sent and
\* nothing is notified.
C11_SelfWriteReachesNothing ==
  [][(EventHandled(MRKey) /\ out'.from_led)
       => /\ state' = state
          /\ threads' = threads
          /\ current_profile' = current_profile
          /\ config' = config
          /\ ledq' = ledq
          /\ out'.action = ActNone
          /\ out'.sent = <<>>
          /\ out'.notify = ""
          /\ out'.executed = {}]_vars

\* the echo of StartMrFlashing was dropped while recording G3
C11_Witness ==
  /\ pc = "top"
  /\ out.event = MRKey
  /\ out.from_led
  /\ out.stored # 0
  /\ state.tag = "Recording"
  /\ state.gkey = 3
  /\ led.flashing

(* ---------------------------------------------------------------------- *)
(* The capture thread's life and its chords                               *)
(* ---------------------------------------------------------------------- *)
\* the capture threads that have been spawned and have not returned
LiveThreads == {t \in 1..MaxThreads : threads[t].status = "running"}

\* C12: when an MRKey that is not an echo ends a recording, the stop flag of
\* the recording's capture thread is set and that thread has returned (it was
\* joined) by the time on_mr_press returns its action.
C12_StopJoinsCaptureThread ==
  [][(state.tag = "Recording" /\ GenuineMrPress)
       => /\ threads'[state.thread].status = "exited"
          /\ state.thread \notin {t \in 1..MaxThreads : threads'[t].status = "running"}]_vars

\* C13: at most one capture thread is alive at any time.
C13_AtMostOneCaptureThread == Cardinality(LiveThreads) <= 1

\* C14: while recording, the chords polled so far followed by those in the
\* channel are the chords the capture thread sent, each once and in the order
\* of its sends; and the SaveMacro of the MRKey that ends the recording carries
\* exactly these chords in that order.
C14_ChordsKeptInOrder ==
  [][/\ state.tag = "Recording"
          => state.captured_keys \o threads[state.thread].queue = threads[state.thread].log
     /\ (state.tag = "Recording" /\ GenuineMrPress /\ threads[state.thread].log # <<>>)
          => out'.action = SaveMacro(state.profile, state.gkey,
                                     ChordsInOrder(threads[state.thread].log))]_vars

\* the thread sent "a" and then "ctrl+a", and the macro saved is "a, ctrl+a"
C14_Witness ==
  /\ pc = "top"
  /\ state = Idle
  /\ out.action.tag = "SaveMacro"
  /\ out.action.text = "a, ctrl+a"
  /\ \E t \in 1..MaxThreads :
       /\ threads[t].stop_flag
       /\ threads[t].log = <<"a", "ctrl+a">>

(* ---------------------------------------------------------------------- *)
(* The connection's life: LED threads, reconnection, the way out          *)
(* ---------------------------------------------------------------------- *)
\* the LED worker threads that exist: the one of led_controller, and the one
\* LedController::new has spawned for a controller not yet assigned
LedWorkers ==
  (IF led.status = "running" THEN 1 ELSE 0) + (IF conn.fresh THEN 1 ELSE 0)

\* this step is the LED worker leaving its loop
LedWorkerLeaves == led.status = "running" /\ led'.status = "exited"

\* this step is a sleep of the outer loop: after a failed Device::open, after
\* a failed LedController::new
FailedOpen == pc = "open" /\ pc' = "open" /\ conn'.fails = conn.fails + 1
FailedLedNew == pc = "new_led" /\ pc' = "open"

\* C15: an LED worker leaves its loop only through the break of Shutdown, with
\* the MR indicator written off and the G-key LEDs written off and committed
\* last; as long as the worker runs led_controller holds the sender, so
\* recv_timeout never returns Disconnected; and every command queued before
\* Shutdown has been received before the worker leaves.
C15_LedWorkerLeavesThroughShutdown ==
  [][/\ led.status = "running" => conn.tx
     /\ LedWorkerLeaves
          => /\ Head(led.todo) = OpBreak
             /\ hid'.mr = FALSE
             /\ hid'.gkeys = "off"
             /\ ~led'.flashing
             /\ ledq' = <<>>]_vars

\* the worker left on reconnection while the recorder awaits a G-key: the
\* SetMrLed(true) and SetAllGKeysLed(white) of the MR press were done, then
\* Shutdown's writes
C15_Witness ==
  /\ pc = "drop_old"
  /\ led.status = "exited"
  /\ state.tag = "AwaitingGKey"
  /\ hid.mr = FALSE
  /\ hid.gkeys = "off"
  /\ ledq = <<>>
  /\ hist.stores = 2

\* C16: on reconnection the worker of the previous LedController has left its
\* loop (after its final writes, joined) when the worker of the new one is
\* created: two LED workers never exist at once.
C16_OneLedWorker ==
  /\ conn.fresh => led.status = "exited"
  /\ LedWorkers <= 1

\* C17: once main has returned and its locals are dropped (the process ends),
\* the LED worker has written its final indicators-off sequence and has been
\* joined, and no capture thread is alive.
C17_AllJoinedAtExit ==
  pc = "done"
    => /\ led.status = "exited"
       /\ hid.mr = FALSE
       /\ hid.gkeys = "off"
       /\ LiveThreads = {}

(* ---------------------------------------------------------------------- *)
(* The reconnection backoff                                               *)
(* ---------------------------------------------------------------------- *)
RECURSIVE Pow2(_)
Pow2(k) == IF k = 0 THEN 1 ELSE 2 * Pow2(k - 1)

Min(a, b) == IF a <= b THEN a ELSE b

\* C20 as stated: the sleep after the k-th failed open in a row is
\* min(2^(k-1), 30) s; the delay is always within 1..30 s; and the first sleep
\* after an open that succeeded is 1 s.
C20_DelayOfKthFailedOpen ==
  [][/\ FailedOpen => conn'.slept = Min(Pow2(conn'.fails - 1), 30)
     /\ conn'.reconnect_delay \in 1..30
     /\ ((FailedOpen \/ FailedLedNew) /\ conn.slept = 0) => conn'.slept = 1]_vars

\* C20, amended: the sleep after the k-th failure in a row since the last open
\* that succeeded, a failure being a failed open or the failed
\* LedController::new that followed that open, is min(2^(k-1), 30) s; the
\* delay is always within 1..30 s; and the first sleep after an open that
\* succeeded is 1 s.
C20_DelayOfKthFailure ==
  [][/\ (FailedOpen \/ FailedLedNew)
          => conn'.slept = Min(Pow2(conn'.fails + (IF conn'.led_failed THEN 1 ELSE 0) - 1), 30)
     /\ conn'.reconnect_delay \in 1..30
     /\ ((FailedOpen \/ FailedLedNew) /\ conn.slept = 0) => conn'.slept = 1]_vars

\* LedController::new failed and six opens after it: the last sleep was capped
C20_Witness ==
  /\ pc = "open"
  /\ conn.led_failed
  /\ conn.fails = 6
  /\ conn.slept = 30
  /\ conn.reconnect_delay = 30

(* ---------------------------------------------------------------------- *)
(* Ordinary events                                                        *)
(* ---------------------------------------------------------------------- *)
\* the event is not for the recorder: no MRKey, and no GKey while a G-key is
\* awaited
NotRecordRelevant(event, st) ==
  /\ event # MRKey
  /\ ~(event.tag = "GKey" /\ is_awaiting(st))

EchoHandled(event) ==
  /\ EventHandled(event)
  /\ hid.echo # <<>>
  /\ hid'.echo = Tail(hid.echo)

\* C19: an MKey(n) for the profile that is current changes nothing and sends
\* nothing; and the MKey(n) the device sends back for a profile write starts
\* nothing new: it switches no profile and sends no command, so a press of a
\* profile key leads to one SetProfileLed and no more.
C19_ProfileEchoStartsNothing ==
  [][\A n \in MKeys :
       /\ (EventHandled(MKey(n)) /\ current_profile = ProfileName(n))
            => /\ current_profile' = current_profile
               /\ ledq' = ledq
               /\ out'.sent = <<>>
               /\ out'.notify = ""
       /\ EchoHandled(MKey(n))
            => /\ current_profile' = current_profile
               /\ out'.sent = <<>>]_vars

(* ---------------------------------------------------------------------- *)
(* parse_report and the reports that decode to nothing                    *)
(* ---------------------------------------------------------------------- *)
\* this step is the read of the report
ReportRead == reads = 0 /\ reads' = 1

\* the table of the report format: the event of a family byte and a mask
TableEvent(family, mask) ==
  CASE family = 10 /\ mask = 0 -> GKeyRelease
    [] family = 10 /\ (\E k \in 1..5 : mask = Pow2(k - 1)) ->
         GKey(CHOOSE k \in 1..5 : mask = Pow2(k - 1))
    [] family = 11 /\ mask = 0 -> MKeyRelease
    [] family = 11 /\ (\E k \in 1..3 : mask = Pow2(k - 1)) ->
         MKey(CHOOSE k \in 1..3 : mask = Pow2(k - 1))
    [] family = 12 /\ mask = 0 -> MRKeyRelease
    [] family = 12 /\ mask = 1 -> MRKey
    [] OTHER -> NoEvent

\* C21: a report of at least 5 bytes that begins 0x11 0xff and has family
\* byte 0x0a, 0x0b or 0x0c decodes to the event the table gives for its mask
\* byte, and to no event for every mask the table does not list.
C21_DecodeAgreesWithTable ==
  [][(/\ ReportRead
      /\ Len(report) >= 5
      /\ report[1] = 17 /\ report[2] = 255
      /\ report[3] \in {10, 11, 12})
       => out'.event = TableEvent(report[3], report[5])]_vars

\* the 20-byte G-key report with mask 0x10 was read as GKey(5)
C21_Witness ==
  /\ reads = 1
  /\ Len(report) = 20
  /\ report[3] = 10 /\ report[5] = 16
  /\ out.event = GKey(5)

\* C22: a report shorter than 5 bytes, with a prefix other than 0x11 0xff or
\* with an unknown family byte decodes to no event; the read returns Ok(None),
\* and the pass of the event loop ends at the top of the loop with the
\* recorder, the profile, the config, the LED queue and the connection as
\* they were.
C22_UndecodableIsNoEvent ==
  [][(/\ ReportRead
      /\ \/ Len(report) < 5
         \/ report[1] # 17
         \/ report[2] # 255
         \/ report[3] \notin {10, 11, 12})
       => /\ out'.event = NoEvent
          /\ pc' = "top"
          /\ state' = state
          /\ current_profile' = current_profile
          /\ config' = config
          /\ ledq' = ledq
          /\ conn' = conn]_vars

\* a G-key report with the second prefix byte 0xfe was read as nothing
C22_Witness ==
  /\ reads = 1
  /\ pc = "top"
  /\ report = <<17, 254, 10, 0, 1>>
  /\ out.event = NoEvent

(* ---------------------------------------------------------------------- *)
(* SaveMacro and the config                                               *)
(* ---------------------------------------------------------------------- *)
\* C23: after the pass that executes SaveMacro{profile, gkey, sequence} the
\* config holds Macro{Sequence, sequence} under (profile, MACRO_<gkey>),
\* whether save() succeeded (notification "Recorded G<gkey>") or failed
\* (notification "Recording failed", and no other); every other macro and
\* the notify setting are as before.
C23_SaveMacroKeptInMemory ==
  [][(GenuineMrPress /\ out'.action.tag = "SaveMacro")
       => LET a == out'.action
          IN  /\ get_macro(config', a.profile, MacroName(a.gkey))
                   = {Macro("Sequence", a.text)}
              /\ \A q \in ProfileNames, m \in MacroNames :
                   (q # a.profile \/ m # MacroName(a.gkey))
                     => get_macro(config', q, m) = get_macro(config, q, m)
              /\ config'.notify = config.notify
              /\ out'.notify \in {"Recorded G" \o Digits[a.gkey], "Recording failed"}]_vars

\* save() failed for a macro recorded on G3 of MEMORY_2: the macro is in the
\* config, and so is the one MEMORY_1 had
C23_Witness ==
  /\ pc = "top"
  /\ out.action.tag = "SaveMacro"
  /\ out.notify = "Recording failed"
  /\ get_macro(config, "MEMORY_2", "MACRO_3") = {Macro("Sequence", out.action.text)}
  /\ get_macro(config, "MEMORY_1", "MACRO_1") = {Macro("Shortcut", "ctrl+c")}

MrWritten ==
  /\ Len(hid'.echo) = Len(hid.echo) + 1
  /\ hid'.echo[Len(hid'.echo)].event \in {MRKey, MRKeyRelease}

\* C25: when the LED thread writes an MR report, its last store of the marker
\* came after its last write of any report (led.marked); and every store of
\* the marker stores the clock's current value.
C25_StoreBeforeEveryMrWrite ==
  [][/\ MrWritten => (led.marked /\ led.stored # 0 /\ led.stored <= clock)
     /\ hist'.stores = hist.stores + 1 => mr_led_write_time' = clock]_vars

\* QuickFlashMr(4) and Shutdown were done: nine MR reports after nine stores
C25_Witness ==
  /\ led.status = "exited"
  /\ hist.stores = 9
  /\ Len(hid.echo) = 9

\* C26: is_mr_event_from_led never stores 0 over a marker that the LED thread
\* stored after the call loaded the marker: no store of the LED thread is lost
\* to the clear of an older one.
C26_NoStoreLostToClear == hist.lost = 0

(* ---------------------------------------------------------------------- *)
(* The MR indicator when nothing is recorded                              *)
(* ---------------------------------------------------------------------- *)
\* the LED thread has done every command sent to it
LedSettled == ledq = <<>> /\ led.todo = <<>>

\* C27: when the recorder is Idle and the LED thread has done every command
\* sent to it, the last MR report written turned the indicator off and the
\* LED thread is not flashing.
C27_IdleIndicatorOff ==
  (state = Idle /\ LedSettled) => (~hid.mr /\ ~led.flashing)

\* a macro was saved while the indicator was flashing, and the quick flash that
\* followed is over
C27_Witness ==
  /\ state = Idle
  /\ LedSettled
  /\ out.action.tag = "SaveMacro"
  /\ hist.stores >= 9

(* ---------------------------------------------------------------------- *)
(* The profile of a recording                                             *)
(* ---------------------------------------------------------------------- *)
\* C28: while the recorder is AwaitingGKey or Recording no step changes
\* current_profile and no pass of the event loop executes a macro; a GKey read
\* while AwaitingGKey is always taken by on_gkey_press (the recording starts or
\* its start fails); and a SaveMacro carries the profile that is current when
\* the macro is saved.
C28_ProfileOfRecordingIsCurrent ==
  [][/\ state # Idle
          => /\ current_profile' = current_profile
             /\ out'.executed = {}
     /\ \A n \in GKeys :
          (EventHandled(GKey(n)) /\ is_awaiting(state))
            => /\ out'.action.tag \in {"StartedRecording", "Error"}
               /\ ~is_awaiting(state')
     /\ (EventHandled(MRKey) /\ out'.action.tag = "SaveMacro")
          => out'.action.profile = current_profile']_vars

\* a macro recorded in the second profile was saved
C28_Witness ==
  /\ state = Idle
  /\ out.action.tag = "SaveMacro"
  /\ out.action.profile = ProfileName(2)
  /\ current_profile = ProfileName(2)

(* ---------------------------------------------------------------------- *)
(* The reads of the event loop and the capture channel                    *)
(* ---------------------------------------------------------------------- *)
\* C29: a read of the event loop returns without a report after its timeout
\* only while the recorder is Recording; the top of every pass made while
\* Recording moves the whole capture queue to the end of captured_keys; and
\* every chord in the queue of a recording's capture thread is moved out of it
\* in the end, whether or not a report arrives.
C29_QueueDrainedWithoutEvents ==
  /\ [][/\ (pc = "read" /\ pc' = "top" /\ reads' = reads) => is_recording(state)
        /\ (pc = "top" /\ pc' = "read" /\ is_recording(state))
             => /\ state'.captured_keys
                     = state.captured_keys \o threads[state.thread].queue
                /\ threads'[state.thread].queue = <<>>]_vars
  /\ \A t \in 1..MaxThreads :
       (threads[t].queue # <<>>) ~> (threads[t].queue = <<>>)

\* a chord was moved to captured_keys by a pass that followed a read that timed
\* out, and the recorder waits in the next read
C29_Witness ==
  /\ is_recording(state)
  /\ pc = "read"
  /\ reads = 2
  /\ out.event = NoEvent
  /\ state.captured_keys # <<>>

(* ---------------------------------------------------------------------- *)
(* What a read error and the reconnection leave alone                     *)
(* ---------------------------------------------------------------------- *)
\* this step is a read that returned Err (SpecConn has no read that returns
\* Ok(None))
ReadFailed == pc = "read" /\ reads' = reads + 1 /\ out'.event = NoEvent

\* main is between the break of the inner loop and the next pass of it
Reconnecting == pc \in {"open", "new_led", "drop_old"}

\* the step leaves the recorder, the thread of a recording and the profile alone
RecordingKept ==
  /\ state' = state
  /\ current_profile' = current_profile
  /\ is_recording(state)
       => /\ threads'[state.thread] = threads[state.thread]
          /\ threads[state.thread].status = "running"
          /\ threads[state.thread].rx

\* the step ends a reconnection: the new LED thread runs and the only command
\* sent to it is SetProfileLed(n), n the number of current_profile
ProfileSentFirst ==
  (pc = "drop_old" /\ pc' = "top")
    => /\ led'.status = "running"
       /\ \E n \in MKeys : /\ current_profile = ProfileName(n)
                           /\ ledq' = <<SetProfileLed(n)>>

\* C30: every read that returns Err takes main out of the inner loop to
\* Device::open, and neither it nor a step of the reconnection changes the
\* recorder's state, the capture thread of a recording or current_profile; the
\* first command the new LED thread is sent is SetProfileLed(n) for
\* current_profile MEMORY_n.
C30_ReadErrorReconnects ==
  [][/\ ReadFailed => (pc' = "open" /\ RecordingKept)
     /\ (Reconnecting /\ pc' # pc) => RecordingKept
     /\ ProfileSentFirst]_vars

\* C30, amended: a read that returns Err while running is set takes main out
\* of the inner loop to Device::open (with running cleared by a signal main
\* goes back to the top of the inner loop, where it returns); neither the read
\* nor a step of the reconnection changes the recorder's state, the capture
\* thread of a recording or current_profile; the first command the new LED
\* thread is sent is SetProfileLed(n) for current_profile MEMORY_n.
C30_ReadErrorReconnectsWhileRunning ==
  [][/\ ReadFailed => /\ pc' = (IF conn.running THEN "open" ELSE "top")
                      /\ RecordingKept
     /\ (Reconnecting /\ pc' # pc) => RecordingKept
     /\ ProfileSentFirst]_vars

\* a recording in the second profile has come through a read error and a
\* reconnection, and the new LED thread has been sent SetProfileLed(2)
C30_Witness ==
  /\ pc = "top"
  /\ is_recording(state)
  /\ threads[state.thread].status = "running"
  /\ current_profile = ProfileName(2)
  /\ out.event = NoEvent
  /\ ledq = <<SetProfileLed(2)>>
  /\ led = NewLedWorker

(* ---------------------------------------------------------------------- *)
(* The modifiers and the chords of a capture thread                       *)
(* ---------------------------------------------------------------------- *)
\* C31: the flag of a modifier in the ModifierState of a capture thread is set
\* exactly when the last press or release of that modifier was a press: a
\* repeat (value 2) of the modifier leaves the flag as it is.
C31_FlagIsLastTransition ==
  \A t \in 1..MaxThreads :
    threads[t].status = "running" => threads[t].modifier_state = threads[t].held

\* the keys key_to_name knows, modifiers apart
NamedKeys == {key \in CaptureKeys : ~IsModifier(key) /\ key_to_name(key) # ""}

\* C32: a capture thread sends at most one chord per key event, and the chord
\* it sends is the modifiers held at that moment, in the order ctrl, alt,
\* shift, super, followed by the name of the key, joined by "+".
C32_ChordIsHeldModifiersAndKey ==
  [][\A t \in 1..MaxThreads :
       /\ Len(threads'[t].log) <= Len(threads[t].log) + 1
       /\ Len(threads'[t].log) = Len(threads[t].log) + 1
            => threads'[t].log[Len(threads'[t].log)]
                 \in {format_with_key(threads[t].held, key) : key \in NamedKeys}]_vars

\* C33: a capture thread leaves its loop only with its stop flag set or with
\* the receiver of its channel gone (a send fails); a fetch that returns an
\* error while the flag is clear leaves the thread running.
C33_LeavesOnlyOnFlagOrSendFailure ==
  [][\A t \in 1..MaxThreads :
       /\ (threads[t].status = "running" /\ threads'[t].status = "exited")
            => (threads[t].stop_flag \/ ~threads[t].rx)
       /\ (threads[t].status = "running" /\ ~threads[t].stop_flag
             /\ threads'[t].errs = threads[t].errs + 1)
            => threads'[t] = [threads[t] EXCEPT !.errs = @ + 1]]_vars

\* a thread that has had two fetches return an error goes on and sends a chord
C33_Witness ==
  \E t \in 1..MaxThreads :
    /\ threads[t].status = "running"
    /\ threads[t].errs = MaxErrs
    /\ threads[t].log # <<>>

(* ---------------------------------------------------------------------- *)
(* Writes of the LED thread that fail                                     *)
(* ---------------------------------------------------------------------- *)
\* C34: whether its writes succeed or fail, the LED thread returns only at
\* the break of Shutdown or when the channel is disconnected; the step that
\* writes an MR report leaves the marker as stored, goes on to the rest of
\* the arm with the sleep of the arm, and a failed write shows only in the
\* device; and no step of the LED thread touches main's locals, the recorder
\* or the capture threads.
C34_FailedWriteOnlyLogged ==
  [][/\ (led.status = "running" /\ led'.status = "exited")
          => \/ (led.todo # <<>> /\ Head(led.todo).op = "break")
             \/ recv_timeout(ledq, conn.tx) = "Disconnected"
     /\ (led.todo # <<>> /\ Head(led.todo).op = "write_mr" /\ led' # led)
          => /\ led' = [led EXCEPT !.todo = Tail(@), !.marked = FALSE,
                                   !.wake = clock + Head(led.todo).sleep]
             /\ mr_led_write_time' = mr_led_write_time
             /\ hid' \in {hid, [hid EXCEPT !.mr = Head(led.todo).on,
                                           !.echo = Append(@, EchoOfMr(Head(led.todo).on,
                                                                       led.stored))]}
     /\ led' # led
          => UNCHANGED <<pc, state, threads, conn, out, current_profile, config>>]_vars

\* StartMrFlashing, QuickFlashMr(1) and Shutdown were done to the end although
\* every write failed: the device shows nothing of them
C34_Witness ==
  /\ led.status = "exited"
  /\ ~led.flashing
  /\ hist.stores = 4
  /\ hid.echo = <<>>
  /\ ~hid.mr

(* ---------------------------------------------------------------------- *)
(* The flashing of the MR indicator                                       *)
(* ---------------------------------------------------------------------- *)
\* the commands whose arms assign flashing
FlashCommands == {"StartMrFlashing", "StopMrFlashing", "QuickFlashMr", "Shutdown"}

\* the worker waits in recv_timeout with the queue empty, flashing in phase on
FlashingQuiet(on) == led.flashing /\ LedWaiting /\ ledq = <<>> /\ led.flash_on = on

\* C35: flashing, flash_on and last_flash change only in the arm of
\* StartMrFlashing, StopMrFlashing, QuickFlashMr or Shutdown or at a Timeout
\* while flashing with at least MR_FLASH_INTERVAL gone since last_flash, which
\* toggles flash_on, sets last_flash to now and writes the MR report for the
\* new phase; while not flashing a Timeout changes nothing of the worker or
\* the device; and while flashing with nothing sent the toggle comes (as far
\* as the clock of the model goes).
C35_ToggleOnlyOnTimeoutAfterInterval ==
  /\ [][/\ (led'.flashing # led.flashing \/ led'.flash_on # led.flash_on
              \/ led'.last_flash # led.last_flash)
             => \/ (LedWaiting /\ ledq # <<>> /\ Head(ledq).cmd \in FlashCommands)
                \/ /\ LedWaiting /\ ledq = <<>> /\ led.flashing
                   /\ clock - led.last_flash >= MR_FLASH_INTERVAL
                   /\ led'.flashing
                   /\ led'.flash_on = ~led.flash_on
                   /\ led'.last_flash = clock
                   /\ led'.todo = <<OpWriteMr(led'.flash_on, 0)>>
        /\ (LedWaiting /\ ledq = <<>> /\ ~led.flashing)
             => (led' = led /\ hid' = hid /\ mr_led_write_time' = mr_led_write_time)]_vars
  /\ \A on \in BOOLEAN :
       FlashingQuiet(on)
         ~> \/ (led.flashing /\ led.flash_on = ~on /\ hid.mr = ~on)
            \/ ledq # <<>>
            \/ led.last_flash + MR_FLASH_INTERVAL > StartTime + MaxTimer

\* the indicator was flashed on, off and on again by two Timeouts
C35_Witness ==
  /\ led.flashing
  /\ led.flash_on
  /\ hid.mr
  /\ hist.stores = 3
  /\ led.last_flash = StartTime + 2 * MR_FLASH_INTERVAL

(* ---------------------------------------------------------------------- *)
(* C36: the reports of the commands that set colours                      *)
(* ---------------------------------------------------------------------- *)
IsColourReport(r) == r[3] = 16 /\ r[4] \in {108, 31}
IsCommitReport(r) == r = led_commit_command
RgbCommandNames ==
  {"SetAllGKeysLed", "SetGKeysRecording", "TurnOffGKeys", "RestoreGKeysColor",
   "SetFullKeyboardColor", "Shutdown"}

\* the worker takes a command from the channel in this step
CommandTaken == LedWaiting /\ ledq # <<>> /\ ledq' = Tail(ledq)

\* the reports of cmd end with the one commit of the arm, and the colours it
\* sets come before it
EndsWithCommit(cmd) ==
  LET rs == ArmReports(cmd)
  IN  /\ IsCommitReport(rs[Len(rs)])
      /\ \A i \in 1..(Len(rs) - 1) : ~IsCommitReport(rs[i])
      /\ \E i \in 1..(Len(rs) - 1) : IsColourReport(rs[i])

\* key 1..5 in order, red for the selected key and off for the others, then
\* the commit
RecordingReports(cmd) ==
  LET rs == ArmReports(cmd)
  IN  /\ Len(rs) = 6
      /\ \A g \in 1..5 :
           rs[g] = gkey_led_command(g, IF g = cmd.n THEN 255 ELSE 0, 0, 0)
      /\ IsCommitReport(rs[6])

\* the four reports of the initialisation come first, the colour frames after
FullKeyboardReports(cmd) ==
  LET rs == ArmReports(cmd)
  IN  /\ \A i \in 1..4 : rs[i] = direct_mode_init_commands[i]
      /\ \A i \in 1..Len(rs) : IsColourReport(rs[i]) => i > 4
      /\ \E i \in 5..Len(rs) : IsColourReport(rs[i])

\* C36: a command that writes colour reports (SetAllGKeysLed, SetGKeysRecording,
\* TurnOffGKeys, RestoreGKeysColor, SetFullKeyboardColor, Shutdown) ends its
\* reports with a commit, and the worker takes no command while an arm is
\* unfinished, so the commit is written before the next command is processed
\* and the colours show once the arm has run; SetGKeysRecording(s) writes red
\* for key s and off for each other key of 1..5 before the commit;
\* SetFullKeyboardColor writes the four initialisation reports before any
\* colour frame.
C36_ColourCommandsEndWithCommit ==
  [][CommandTaken =>
       LET cmd == Head(ledq)
       IN  /\ led.todo = <<>>
           /\ (\E i \in 1..Len(ArmReports(cmd)) : IsColourReport(ArmReports(cmd)[i]))
                <=> cmd.cmd \in RgbCommandNames
           /\ cmd.cmd \in RgbCommandNames => EndsWithCommit(cmd)
           /\ cmd.cmd = "SetGKeysRecording" =>
                RecordingReports(cmd) /\ hid'.gkeys = "selected"
           /\ cmd.cmd = "SetFullKeyboardColor" =>
                FullKeyboardReports(cmd) /\ hid'.gkeys = "color"
           /\ cmd.cmd \in {"TurnOffGKeys"} => hid'.gkeys = "off"
           /\ cmd.cmd = "Shutdown" =>
                /\ Len(led'.todo) >= 2
                /\ led'.todo[Len(led'.todo) - 1] = OpWriteOff
                /\ led'.todo[Len(led'.todo)] = OpBreak]_vars

\* the worker has run SetGKeysRecording, its colours show, and the next
\* command, one that sets the whole keyboard, is still in the channel
C36_Witness ==
  /\ hid.gkeys = "selected"
  /\ led.status = "running" /\ led.todo = <<>>
  /\ ledq # <<>> /\ Head(ledq).cmd = "SetFullKeyboardColor"

(* ---------------------------------------------------------------------- *)
(* C37: the marker and the MRKeyRelease the device sends back             *)
(* ---------------------------------------------------------------------- *)
\* C37: when the event loop handles the MRKeyRelease that the device sends back
\* for a write of the MR indicator, and the marker stored for that write is
\* still in place and less than 30 ms old, the marker is consumed (read and
\* cleared) as it is for an MRKey, so that it is not left to claim a later
\* press of the user.
C37_ReleaseConsumesMarker ==
  [][(/\ EventHandled(MRKeyRelease)
      /\ out'.stored # 0
      /\ mr_led_write_time = out'.stored
      /\ clock - out'.stored < MR_LED_DEBOUNCE_MS)
       => mr_led_write_time' = 0]_vars

(* ---------------------------------------------------------------------- *)
(* C38: the reports of the encoders, read back                            *)
(* ---------------------------------------------------------------------- *)
\* the reports that set colours, commit them or initialise the direct mode
QuietReports ==
  {r \in WrittenReports : r[3] \in {8, 15, 16}}

\* exactly bit k of the byte m is set
OnlyBit(m, k) == m = 2 ^ k

\* C38: read back, mr_led_command(true) decodes as MRKey and
\* mr_led_command(false) as MRKeyRelease; led_command(n) for n in 1..3 has
\* exactly bit n-1 set in its mask and decodes as MKey(n); no colour, commit
\* or initialisation report decodes to an event.
C38_EncodedReportsDecode ==
  [][ReportRead =>
       /\ report = mr_led_command(TRUE) => out'.event = MRKey
       /\ report = mr_led_command(FALSE) => out'.event = MRKeyRelease
       /\ \A n \in 1..3 :
            /\ OnlyBit(led_command(n)[5], n - 1)
            /\ report = led_command(n) => out'.event = MKey(n)
       /\ report \in QuietReports => out'.event = NoEvent]_vars

\* the report that switches the MR indicator off was read as MRKeyRelease
C38_Witness ==
  /\ reads = 1
  /\ report = mr_led_command(FALSE)
  /\ out.event = MRKeyRelease

(* ---------------------------------------------------------------------- *)
(* C39: a recorded sequence, run again                                    *)
(* ---------------------------------------------------------------------- *)
\* the names in a sequence: one more than its separators ',' and '+'
NamesIn(seq) == 1 + Cardinality({i \in 1..Len(seq) : CharAt(seq, i) \in {",", "+"}})

\* the key presses among the events written
PressesOf(events) == SelectSeq(events, LAMBDA e : e.value = 1)

\* C39: when a macro of the kind the recorder saves (a sequence of chords) is
\* run, every name in it is resolved by parse_key: no part is passed over as
\* unknown, and one key is pressed for each name, in order.
C39_RecordedSequenceReplays ==
  \A macro_def \in out.executed :
    macro_def.hotkey_type = "Sequence" =>
      /\ out.emitted.unknown = <<>>
      /\ Len(PressesOf(out.emitted.events)) = NamesIn(macro_def.action)

(* ---------------------------------------------------------------------- *)
(* C40: the letters typed and the letters named                           *)
(* ---------------------------------------------------------------------- *)
\* what typing the letter c should write, given the code its name has: the key
\* pressed and released, between a press and a release of shift if c is upper
\* case
LetterTyped(c) ==
  LET upper == \E i \in 1..26 : CharAt(UppercaseLetters, i) = c
  IN  (IF upper THEN <<press(key_code.KEY_LEFTSHIFT)>> ELSE <<>>)
        \o click(parse_key(to_lowercase(c)))
        \o (IF upper THEN <<release(key_code.KEY_LEFTSHIFT)>> ELSE <<>>)

\* C40: when a macro that types one letter (a..z, A..Z) is run, typeout writes
\* the key code parse_key gives for the name of the letter, with shift held
\* exactly if the letter is upper case.
C40_TypeoutAgreesWithKeyNames ==
  \A macro_def \in out.executed :
    (macro_def.hotkey_type = "Typeout" /\ macro_def.action \in Letters)
      => out.emitted.events = LetterTyped(macro_def.action)
====
